---- MODULE Spec2Model ----
(***************************************************************************)
(* Model of the quiz backend's generation-and-caching pipeline:            *)
(*   - LLMService.generate_quiz           (services/llm_service.py)        *)
(*   - CacheService, over a Redis store   (services/cache_service.py)      *)
(*   - the rate-limit step of the generate endpoint (main.py)              *)
(* Each part has its own specification over its own variables; the other   *)
(* variables stay at their initial value.                                  *)
(***************************************************************************)
EXTENDS Integers, Sequences, FiniteSets, TLC

VARIABLES
    \* ---- one generate request: main.generate_quiz and LLMService.generate_quiz ----
    title,          \* "" or a title
    content,        \* the body: the sequence of its '.'-separated pieces, <<>> for ""
    question_count, \* requested number of questions
    distribution,   \* difficulty_distribution: a function on its keys (<<>> when None or {})
    supplied,       \* difficulty_distribution as the caller passed it
    gpc,            \* position in the request
    attempt,        \* the loop variable of the attempt loop
    elapsed,        \* seconds since signal.alarm(25), while the alarm is pending
    armed,          \* the alarm is still pending
    quiz_data,      \* the local quiz_data
    calls,          \* the provider outcomes seen so far, in order
    sleeps,         \* the backoff sleeps started so far, in order
    timeoutAt,      \* where the alarm fired: "none", "call", "sleep"
    callsAtTimeout, \* number of provider calls made when the alarm fired
    result,         \* what LLMService.generate_quiz returned or raised
    http,           \* status code of the endpoint's response (0: none yet)
    \* ---- CacheService and its Redis store ----
    redis_client,   \* self.redis_client: "connected", or None
    redis,          \* the store: key -> [has, val, exp]
    now,            \* the store's clock, in seconds
    last,           \* the last CacheService call: what was called and what it returned
    \* ---- observers of the rate limiter ----
    params,         \* the limit and the window length the callers pass
    window,         \* identity -> the fixed window its increments fall in
    granted,        \* identity -> window start -> calls of that window that returned True
    written,        \* cache key -> the last value stored under it, when, and for how long
    \* ---- concurrent callers of increment_rate_limit ----
    procs           \* process -> its position in increment_rate_limit and its locals

gvars == <<title, content, question_count, distribution, supplied, gpc, attempt, elapsed,
           armed, quiz_data, calls, sleeps, timeoutAt, callsAtTimeout, result, http>>

None == "None"

\* ------------------------------------------------------------------------
\* Program constants of generate_quiz
MinQuestions == 5
MaxQuestions == 10
MaxRetries == 3
AlarmSeconds == 25
MaxContentLength == 8000
MinSentenceLen == 50
MinSentenceWords == 5
MinDistractorLen == 30
NumOptions == 4

\* Bounds of the model
MaxPieces == 4          \* longest body, in pieces
ExtraCount == 1         \* question counts tried below and above the valid range

Max(a, b) == IF a >= b THEN a ELSE b
Min(a, b) == IF a <= b THEN a ELSE b

Difficulties == {"easy", "medium", "hard"}
Sentinel == "insufficient evidence in article"

\* ------------------------------------------------------------------------
\* Body texts.  A piece is what content.split('.') yields: its text, its length
\* in characters and its number of words.
Piece(t, l, w) == [text |-> t, len |-> l, words |-> w]
LongA == Piece("A", 60, 9)
LongB == Piece("B", 70, 10)
LongC == Piece("C", 55, 8)
LongD == Piece("D", 80, 12)
MidE == Piece("E", 40, 6)
FewWords == Piece("F", 52, 4)
Short == Piece("s", 10, 2)
Huge == Piece("H", 9000, 1500)
EndPiece == Piece("", 0, 0)

AllBodies ==
    { <<LongA, LongB, LongC, LongD>>,               \* four long sentences
      <<LongA, LongA, LongB, LongC>>,               \* a repeated sentence
      <<FewWords, Short, EndPiece>>,                \* nothing usable: padding only
      <<LongA, Huge, EndPiece>>,                    \* longer than 8000 characters
      <<LongA, Short, LongB, MidE, EndPiece>>,      \* too few distractors for some
      <<LongA, LongB, LongC, LongD, MidE, EndPiece>> }

Bodies == {b \in AllBodies : Len(b) <= MaxPieces}

\* content[:8000] + "...": the pieces that fit, the piece the cut falls in, and
\* the three empty pieces the appended dots make.  `room` is what is left of the
\* 8000 characters; a piece is followed by its '.' unless it is the last one.
RECURSIVE CutPieces(_, _, _)
CutPieces(body, i, room) ==
    IF i > Len(body) THEN <<>>
    ELSE IF body[i].len >= room
         THEN <<Piece("cut", room, Min(body[i].words, room))>>
         ELSE <<body[i]>> \o CutPieces(body, i + 1, room - body[i].len - 1)

RECURSIVE TotalLength(_, _)
TotalLength(body, i) ==
    IF i > Len(body) THEN 0
    ELSE body[i].len + (IF i < Len(body) THEN 1 ELSE 0) + TotalLength(body, i + 1)

Truncate(body) ==
    IF TotalLength(body, 1) > MaxContentLength
    THEN CutPieces(body, 1, MaxContentLength) \o <<EndPiece, EndPiece, EndPiece>>
    ELSE body

\* ------------------------------------------------------------------------
\* Question records
\* The value of a key the dict does not have
Absent == "(absent)"

\* The keys "question" and "explanation" are spelled by one field, explanation
Question(id, opts, ans, diff, ev, sec) ==
    [id |-> id, options |-> opts, answer |-> ans, difficulty |-> diff,
     evidence_span |-> ev, section_reference |-> sec, explanation |-> "because"]

NoId == <<"", 0>>

\* quiz_data: shape "none" is None, "dict" a dict whose questions are a list,
\* "odd" a dict whose questions field has no len()
Quiz(shape, qs, topics) == [shape |-> shape, questions |-> qs, related_topics |-> topics]
NoQuiz == Quiz("none", <<>>, <<>>)
EmptyQuiz == Quiz("dict", <<>>, <<>>)

\* _generate_basic_questions: the question made of sentence i (0-based), if any.
\* An id is a pair: <<"uuid", k>> is a fresh uuid4, <<"llm", k>> one the provider
\* wrote, NoId the missing or empty id.  A section reference is a string.
SentenceQuestion(sentences, i) ==
    LET n == Len(sentences)
        sentence == sentences[i + 1]
        OtherIdx(j) == (i + j + 1) % n
        Keep(j) == OtherIdx(j) # i /\ sentences[OtherIdx(j) + 1].len > MinDistractorLen
        js == SelectSeq(<<0, 1, 2>>, Keep)
        distractors == [k \in 1..Len(js) |-> sentences[OtherIdx(js[k]) + 1].text]
    IN  IF sentence.len > MinSentenceLen /\ sentence.words > MinSentenceWords
           /\ Len(distractors) >= 3
        THEN <<Question(<<"uuid", i + 1>>,
                        <<sentence.text>> \o SubSeq(distractors, 1, 3),
                        sentence.text, "easy", sentence.text, "Paragraph")>>
        ELSE <<>>

Placeholder(k) ==
    Question(<<"uuid", 100 + k>>,
             <<"The main topic", "A secondary topic", "An unrelated topic", "A different subject">>,
             "The main topic", "easy", Sentinel, "General")

RECURSIVE SentenceQuestions(_, _, _)
SentenceQuestions(sentences, i, upto) ==
    IF i >= upto THEN <<>>
    ELSE SentenceQuestion(sentences, i) \o SentenceQuestions(sentences, i + 1, upto)

GenerateBasicQuestionsNoPadding(body, n) ==
    Quiz("dict", SentenceQuestions(body, 0, Min(n, Len(body) - 1)),
         <<"Technology", "Science", "Education">>)

GenerateBasicQuestions(body, n) ==
    LET fromText == SentenceQuestions(body, 0, Min(n, Len(body) - 1))
        padded == fromText \o [k \in 1..Max(0, n - Len(fromText)) |-> Placeholder(Len(fromText) + k)]
    IN  Quiz("dict", SubSeq(padded, 1, Max(0, n)), <<"Technology", "Science", "Education">>)

\* ------------------------------------------------------------------------
\* generate_quiz, lines 120-130: the distribution in use
DefaultDistribution(n) ==
    [easy |-> Max(2, n \div 3), medium |-> Max(2, n \div 2),
     hard |-> Max(1, n - (n \div 3 + n \div 2))]

RECURSIVE SumOver(_, _)
SumOver(d, keys) ==
    IF keys = {} THEN 0
    ELSE LET k == CHOOSE x \in keys : TRUE IN d[k] + SumOver(d, keys \ {k})

SumValues(d) == SumOver(d, DOMAIN d)

\* [ok |-> FALSE] stands for the KeyError of difficulty_distribution["medium"] += ...
NormalizeDistribution(d, n) ==
    LET base == IF DOMAIN d = {} THEN DefaultDistribution(n) ELSE d
        remaining == n - SumValues(base)
    IN  IF remaining = 0 THEN [ok |-> TRUE, dist |-> base]
        ELSE IF "medium" \in DOMAIN base
             THEN [ok |-> TRUE, dist |-> [base EXCEPT !["medium"] = @ + remaining]]
             ELSE [ok |-> FALSE, dist |-> base]

DistInputs(n) ==
    { <<>>,
      [easy |-> 2, medium |-> 2, hard |-> n - 4],
      [easy |-> n, medium |-> 0, hard |-> n],
      [easy |-> 2, hard |-> 1],
      [medium |-> 1] }

\* ------------------------------------------------------------------------
\* The provider and the parsers.  A provider outcome is the kind of text the call
\* returned, or "provider_error" when the call raised.
StructuredKinds ==
    {"structured", "structured_short", "structured_empty", "structured_bad_answer",
     "structured_3_options", "structured_bad_difficulty"}
UnstructuredKinds ==
    {"json_in_prose", "json_no_explanation", "json_same_ids", "json_odd", "no_json"}
Outcomes == {"provider_error"} \cup StructuredKinds \cup UnstructuredKinds
CallSeconds == {0, 24, 25}

DifficultyOf(k) == IF k % 3 = 1 THEN "easy" ELSE IF k % 3 = 2 THEN "medium" ELSE "hard"
LlmOptions == <<"o1", "o2", "o3", "o4">>
LlmQuestion(k) == Question(<<"llm", k>>, LlmOptions, "o1", DifficultyOf(k), "quote", "Section")
LlmQuestions(n) == [k \in 1..n |-> LlmQuestion(k)]
Topics == <<"Topic">>

\* self.parser.parse(response_text): <<quiz>>, or <<>> when it raises
ParserParse(resp, n) ==
    CASE resp = "structured" -> <<Quiz("dict", LlmQuestions(n), Topics)>>
      [] resp = "structured_short" -> <<Quiz("dict", LlmQuestions(n - 1), Topics)>>
      [] resp = "structured_empty" -> <<Quiz("dict", <<>>, Topics)>>
      [] resp = "structured_bad_answer" ->
            <<Quiz("dict", [LlmQuestions(n) EXCEPT ![1].answer = "zz"], Topics)>>
      [] resp = "structured_3_options" ->
            <<Quiz("dict", [LlmQuestions(n) EXCEPT ![1].options = <<"o1", "o2", "o3">>], Topics)>>
      [] resp = "structured_bad_difficulty" ->
            <<Quiz("dict", [LlmQuestions(n) EXCEPT ![1].difficulty = "trivial"], Topics)>>
      [] OTHER -> <<>>

\* A question as the provider wrote it in free JSON: no id, no evidence_span,
\* a section_reference on every second one
LooseQuestion(k) ==
    Question(NoId, LlmOptions, "o2", DifficultyOf(k), "", IF k % 2 = 0 THEN "Section" ELSE "")

\* _extract_json_manually(response_text), _fix_and_parse_json included
ExtractJsonManually(resp, n) ==
    CASE resp = "json_in_prose" -> Quiz("dict", [k \in 1..n |-> LooseQuestion(k)], Topics)
      [] resp = "json_no_explanation" ->
            Quiz("dict", [k \in 1..n |-> IF k = n THEN [LooseQuestion(k) EXCEPT !.explanation = Absent]
                                                  ELSE LooseQuestion(k)], Topics)
      [] resp = "json_same_ids" ->
            Quiz("dict", [k \in 1..n |-> IF k <= 2 THEN [LooseQuestion(k) EXCEPT !.id = <<"llm", 1>>]
                                                   ELSE LooseQuestion(k)], Topics)
      [] resp = "json_odd" -> Quiz("odd", <<>>, Topics)
      [] OTHER -> EmptyQuiz

\* generate_quiz, lines 168-172
PostProcess(q, k) ==
    LET withId == IF q.id = NoId THEN [q EXCEPT !.id = <<"uuid", 200 + k>>] ELSE q
    IN  IF withId.evidence_span = ""
        THEN [withId EXCEPT !.evidence_span =
                 IF q.section_reference # "" THEN q.section_reference ELSE Sentinel]
        ELSE withId

Range(f) == {f[i] : i \in DOMAIN f}

QuestionIsAnything(q) == TRUE

\* _validate_quiz_data: TRUE when it returns, FALSE when it raises ValueError
QuestionIsValid(q) ==
    /\ q.explanation # Absent
    /\ Len(q.options) = NumOptions
    /\ q.difficulty \in Difficulties
    /\ q.answer \in Range(q.options)

ValidateQuizData(quiz) == \A i \in DOMAIN quiz.questions : QuestionIsValid(quiz.questions[i])

\* What generate_quiz returns or raises
Returned(src, quiz, warned) ==
    [kind |-> "returned", source |-> src, questions |-> quiz.questions, warned |-> warned]
Raised(err) == [kind |-> "raised", source |-> err, questions |-> <<>>, warned |-> FALSE]
NoResult == [kind |-> "none", source |-> "", questions |-> <<>>, warned |-> FALSE]

LogsNothing(quiz, n) == FALSE

\* _validate_quiz_data, lines 333-334: the warning about the number of questions
LogsCountMismatch(quiz, n) == Len(quiz.questions) # n

\* generate_quiz, lines 164-177: after the loop
AfterLoop(quiz, body, n) ==
    LET useBasic == quiz.shape = "none" \/ Len(quiz.questions) = 0
        q1 == IF useBasic THEN GenerateBasicQuestions(body, n) ELSE quiz
        q2 == [q1 EXCEPT !.questions = [k \in DOMAIN q1.questions |-> PostProcess(q1.questions[k], k)]]
    IN  IF ValidateQuizData(q2)
        THEN Returned(IF useBasic THEN "heuristic" ELSE "llm", q2, LogsCountMismatch(q2, n))
        ELSE Raised("ValueError")

\* generate_quiz, lines 179-181: the TimeoutError handler
OnTimeout(body, n) == Returned("timeout", GenerateBasicQuestions(body, n), FALSE)

\* ------------------------------------------------------------------------
\* One generate request
Titles == {"", "Test"}
CountInputs == (MinQuestions - ExtraCount)..(MaxQuestions + ExtraCount)

InitGen ==
    /\ title = ""
    /\ content = <<>>
    /\ question_count = 0
    /\ distribution = <<>>
    /\ supplied = <<>>
    /\ gpc = "idle"
    /\ attempt = 0
    /\ elapsed = 0
    /\ armed = FALSE
    /\ quiz_data = NoQuiz
    /\ calls = <<>>
    /\ sleeps = <<>>
    /\ timeoutAt = "none"
    /\ callsAtTimeout = 0
    /\ result = NoResult
    /\ http = 0

\* main.generate_quiz up to the call of the service, and the request model's
\* check of question_count: the request is turned away
RejectRequest(status) ==
    /\ gpc = "idle"
    /\ http' = status
    /\ gpc' = "done"
    /\ UNCHANGED <<title, supplied, content, question_count, distribution, attempt, elapsed, armed,
                   quiz_data, calls, sleeps, timeoutAt, callsAtTimeout, result>>

\* llm_service.generate_quiz is called, by the endpoint (main.py, lines 301-307)
\* with the article's title and text, or by any other caller
GenerateQuiz(t, body, n, d) ==
    /\ gpc = "idle"
    /\ title' = t
    /\ content' = body
    /\ question_count' = n
    /\ distribution' = d
    /\ supplied' = d
    /\ gpc' = "validate"
    /\ UNCHANGED <<attempt, elapsed, armed, quiz_data, calls, sleeps, timeoutAt,
                   callsAtTimeout, result, http>>

InvalidInputNoCount(t, body, n) == t = "" \/ body = <<>>

\* generate_quiz, lines 114-118: the two checks that raise ValueError
InvalidInput(t, body, n) ==
    \/ t = "" \/ body = <<>>
    \/ n < MinQuestions \/ n > MaxQuestions

\* generate_quiz, lines 108-137: alarm, checks, distribution, truncation
Validate ==
    /\ gpc = "validate"
    /\ armed' = TRUE
    /\ elapsed' = 0
    /\ LET norm == NormalizeDistribution(distribution, question_count)
       IN  IF InvalidInput(title, content, question_count)
           THEN /\ result' = Raised("ValueError")
                /\ gpc' = "returned"
                /\ UNCHANGED <<distribution, content>>
           ELSE IF ~norm.ok
           THEN /\ result' = Raised("KeyError")
                /\ gpc' = "returned"
                /\ distribution' = norm.dist
                /\ UNCHANGED content
           ELSE /\ distribution' = norm.dist
                /\ content' = Truncate(content)
                /\ gpc' = "attempt"
                /\ UNCHANGED result
    /\ UNCHANGED <<title, supplied, question_count, attempt, quiz_data, calls, sleeps,
                   timeoutAt, callsAtTimeout, http>>

RangeStuck(a) == a

\* for attempt in range(max_retries), line 139: the value after a
RangeNext(a) == a + 1

\* The handler of an exception raised in the attempt's try block, lines 156-162:
\* the last attempt re-raises, the others go on to time.sleep
LastAttempt == attempt = MaxRetries - 1

\* generate_quiz, lines 139-159: one pass of the attempt loop up to its sleep.
\* The provider call takes d seconds and ends as `resp`; the alarm, if still
\* pending, interrupts the call with TimeoutError when the 25 seconds run out.
Attempt(resp, d) ==
    /\ gpc = "attempt"
    /\ attempt < MaxRetries
    /\ armed \/ d = 0
    /\ LET fires == armed /\ elapsed + d >= AlarmSeconds
           parsed == ParserParse(resp, question_count)
           extracted == ExtractJsonManually(resp, question_count)
       IN  IF fires
           THEN /\ calls' = Append(calls, "timeout")
                /\ elapsed' = AlarmSeconds
                /\ armed' = FALSE
                /\ timeoutAt' = "call"
                /\ callsAtTimeout' = Len(calls) + 1
                /\ UNCHANGED <<quiz_data, attempt>>
                /\ IF LastAttempt
                   THEN /\ result' = OnTimeout(content, question_count)
                        /\ gpc' = "returned"
                   ELSE /\ gpc' = "sleep"
                        /\ UNCHANGED result
           ELSE /\ calls' = Append(calls, resp)
                /\ elapsed' = IF armed THEN elapsed + d ELSE elapsed
                /\ UNCHANGED <<armed, timeoutAt, callsAtTimeout>>
                /\ IF resp = "provider_error"
                   THEN /\ UNCHANGED <<quiz_data, attempt>>
                        /\ IF LastAttempt
                           THEN /\ result' = Raised("ProviderError")
                                /\ gpc' = "returned"
                           ELSE /\ gpc' = "sleep"
                                /\ UNCHANGED result
                   ELSE IF parsed # <<>>
                   THEN /\ quiz_data' = parsed[1]
                        /\ gpc' = "finish"
                        /\ UNCHANGED <<attempt, result>>
                   ELSE IF extracted.shape = "odd"
                   THEN /\ quiz_data' = extracted
                        /\ UNCHANGED attempt
                        /\ IF LastAttempt
                           THEN /\ result' = Raised("TypeError")
                                /\ gpc' = "returned"
                           ELSE /\ gpc' = "sleep"
                                /\ UNCHANGED result
                   ELSE /\ quiz_data' = extracted
                        /\ UNCHANGED result
                        /\ IF Len(extracted.questions) > 0
                           THEN /\ gpc' = "finish"
                                /\ UNCHANGED attempt
                           ELSE /\ attempt' = RangeNext(attempt)
                                /\ gpc' = IF LastAttempt THEN "finish" ELSE "attempt"
    /\ UNCHANGED <<title, supplied, content, question_count, distribution, sleeps, http>>

\* generate_quiz, line 162: time.sleep(2 ** attempt) in the handler; a
\* TimeoutError raised here leaves the loop for the handler of lines 179-181
BackoffSleep ==
    /\ gpc = "sleep"
    /\ sleeps' = Append(sleeps, 2 ^ attempt)
    /\ IF armed /\ elapsed + 2 ^ attempt >= AlarmSeconds
       THEN /\ elapsed' = AlarmSeconds
            /\ armed' = FALSE
            /\ timeoutAt' = "sleep"
            /\ callsAtTimeout' = Len(calls)
            /\ result' = OnTimeout(content, question_count)
            /\ gpc' = "returned"
            /\ UNCHANGED attempt
       ELSE /\ elapsed' = IF armed THEN elapsed + 2 ^ attempt ELSE elapsed
            /\ attempt' = RangeNext(attempt)
            /\ gpc' = "attempt"
            /\ UNCHANGED <<armed, timeoutAt, callsAtTimeout, result>>
    /\ UNCHANGED <<title, supplied, content, question_count, distribution, quiz_data, calls, http>>

\* generate_quiz, lines 164-177
Finish ==
    /\ gpc = "finish"
    /\ result' = AfterLoop(quiz_data, content, question_count)
    /\ gpc' = "returned"
    /\ UNCHANGED <<title, supplied, content, question_count, distribution, attempt, elapsed,
                   armed, quiz_data, calls, sleeps, timeoutAt, callsAtTimeout, http>>

\* main.generate_quiz, lines 308-338, when the caller was the endpoint (whose
\* request model admits only 5..10 questions): an exception of the service, or
\* of save_quiz, becomes a 500; otherwise the quiz is the response
Respond(saved) ==
    /\ gpc = "returned"
    /\ question_count \in MinQuestions..MaxQuestions
    /\ http' = IF result.kind = "raised" \/ ~saved THEN 500 ELSE 200
    /\ gpc' = "done"
    /\ UNCHANGED <<title, supplied, content, question_count, distribution, attempt, elapsed,
                   armed, quiz_data, calls, sleeps, timeoutAt, callsAtTimeout, result>>

NextGen ==
    \/ \E status \in {429, 400, 422} : RejectRequest(status)
    \/ \E t \in Titles, body \in Bodies \cup {<<>>}, n \in CountInputs :
          \E d \in DistInputs(n) : GenerateQuiz(t, body, n, d)
    \/ Validate
    \/ \E resp \in Outcomes, d \in CallSeconds : Attempt(resp, d)
    \/ BackoffSleep
    \/ Finish
    \/ \E saved \in BOOLEAN : Respond(saved)

\* ========================================================================
\* The Redis store behind CacheService.  A key is <<namespace, id>>, standing
\* for f"{namespace}:{id}".  An entry may outlive its expiry physically; the
\* server answers as if it were gone (Live).

rvars == <<redis_client, redis, now, last, params, window, granted, written, procs>>

VARIABLES
    \* ---- the quiz store and the in-process memo (main.py, quiz_repository.py) ----
    db,             \* the quizzes table: quiz id -> <<QuizRecord>>, or <<>>
    quizzes_db,     \* main.quizzes_db: quiz id -> <<payload>>, or <<>>
    served,         \* quiz id -> <<the first payload a request returned for it>>, or <<>>
    \* ---- one call of _extract_json_manually ----
    response,       \* the provider's text, as a sequence of tokens
    extracted       \* what the call returned (NoQuiz before the call)

qvars == <<db, quizzes_db, served>>
xvars == <<response, extracted>>

QuizIds == {"q1", "q2"}

InitTiers ==
    /\ db = [q \in QuizIds |-> <<>>]
    /\ quizzes_db = [q \in QuizIds |-> <<>>]
    /\ served = [q \in QuizIds |-> <<>>]

InitText ==
    /\ response = <<>>
    /\ extracted = NoQuiz

NoExpiry == -1
NoEntry == [has |-> FALSE, val |-> 0, exp |-> NoExpiry]

LiveForever(store, k, t) == store[k].has

Live(store, k, t) ==
    /\ store[k].has
    /\ (store[k].exp = NoExpiry \/ t < store[k].exp)

\* INCR: a missing key counts from 0 and gets no expiry; a live one keeps its own
RedisIncr(store, k, t) ==
    IF Live(store, k, t)
    THEN [store EXCEPT ![k].val = @ + 1]
    ELSE [store EXCEPT ![k] = [has |-> TRUE, val |-> 1, exp |-> NoExpiry]]

\* EXPIRE key seconds
RedisExpire(store, k, t, seconds) ==
    IF Live(store, k, t) THEN [store EXCEPT ![k].exp = t + seconds] ELSE store

\* SETEX key seconds value
RedisSetex(store, k, t, seconds, v) ==
    [store EXCEPT ![k] = [has |-> TRUE, val |-> v, exp |-> t + seconds]]

\* GET: <<value>>, or <<>> for nil
RedisGet(store, k, t) == IF Live(store, k, t) THEN <<store[k].val>> ELSE <<>>

\* TTL: -2 without the key, -1 without an expiry
RedisTtl(store, k, t) ==
    IF ~Live(store, k, t) THEN -2
    ELSE IF store[k].exp = NoExpiry THEN -1 ELSE store[k].exp - t

\* ------------------------------------------------------------------------
\* CacheService.increment_rate_limit and get_rate_limit_status.
\* `fault` names the Redis command of the call that raises ("none": no one).
RateKey(identifier) == <<"rate_limit", identifier>>

ExceedsAtLimit(current, limit) == current >= limit
ExceedsByTwo(current, limit) == current > limit + 1
Exceeds(current, limit) == current > limit

IncrementRateLimitFailClosed(client, store, t, identifier, limit, seconds, fault) ==
    [allowed |-> client # None /\ fault = "none" /\
                     ~Exceeds(RedisIncr(store, RateKey(identifier), t)[RateKey(identifier)].val, limit),
     store |-> store]

IncrementRateLimitRollback(client, store, t, identifier, limit, seconds, fault) ==
    LET key == RateKey(identifier)
        incremented == RedisIncr(store, key, t)
        current == incremented[key].val
        expired == IF current = 1 THEN RedisExpire(incremented, key, t, seconds) ELSE incremented
    IN  IF client = None THEN [allowed |-> TRUE, store |-> store]
        ELSE IF fault = "incr" THEN [allowed |-> TRUE, store |-> store]
        ELSE IF fault = "expire" /\ current = 1 THEN [allowed |-> TRUE, store |-> incremented]
        ELSE IF Exceeds(current, limit) THEN [allowed |-> FALSE, store |-> store]
        ELSE [allowed |-> TRUE, store |-> expired]

IncrementRateLimitSliding(client, store, t, identifier, limit, seconds, fault) ==
    LET key == RateKey(identifier)
        incremented == RedisIncr(store, key, t)
        current == incremented[key].val
        expired == RedisExpire(incremented, key, t, seconds)
    IN  IF client = None THEN [allowed |-> TRUE, store |-> store]
        ELSE IF fault = "incr" THEN [allowed |-> TRUE, store |-> store]
        ELSE IF fault = "expire" /\ current = 1 THEN [allowed |-> TRUE, store |-> incremented]
        ELSE [allowed |-> ~Exceeds(current, limit), store |-> expired]

IncrementRateLimit(client, store, t, identifier, limit, seconds, fault) ==
    LET key == RateKey(identifier)
        incremented == RedisIncr(store, key, t)
        current == incremented[key].val
        expired == IF current = 1 THEN RedisExpire(incremented, key, t, seconds) ELSE incremented
    IN  IF client = None THEN [allowed |-> TRUE, store |-> store]
        ELSE IF fault = "incr" THEN [allowed |-> TRUE, store |-> store]
        ELSE IF fault = "expire" /\ current = 1 THEN [allowed |-> TRUE, store |-> incremented]
        ELSE [allowed |-> ~Exceeds(current, limit), store |-> expired]

StatusLimit == 10
DefaultResetsIn == 3600
\* resets_in = 0 stands for a dict without that key
NotLimited == [allowed |-> TRUE, current |-> 0, limit |-> StatusLimit,
               remaining |-> StatusLimit, resets_in |-> 0]

GetRateLimitStatus(client, store, t, identifier, fault) ==
    LET key == RateKey(identifier)
        got == RedisGet(store, key, t)
        current == IF got = <<>> THEN 0 ELSE got[1]
        ttl == RedisTtl(store, key, t)
    IN  IF client = None \/ fault \in {"get", "ttl"} THEN NotLimited
        ELSE [allowed |-> current <= StatusLimit,
              current |-> current,
              limit |-> StatusLimit,
              remaining |-> Max(0, StatusLimit - current),
              resets_in |-> IF ttl > 0 THEN ttl ELSE DefaultResetsIn]

\* ------------------------------------------------------------------------
\* Callers of the rate limiter
Clients == {"c1", "c2"}

\* main.get_client_identifier: the md5 of "ip:user-agent"
GetClientIdentifier(c) == IF c = "c1" THEN "md5_c1" ELSE "md5_c2"

\* main.generate_quiz, line 256: the identity the generate endpoint counts under
GenerateClientId(c) == "default_client"

Identities == {"default_client"} \cup {GetClientIdentifier(c) : c \in Clients}
RateKeys == {RateKey(i) : i \in Identities}

\* Bounds of the rate-limiter models
MaxNow == 3             \* last second of the clock
MaxOver == 1            \* how far a counter is driven past the limit
RateLimit == 2          \* the limit the callers pass
WindowSeconds == 2      \* the window length the callers pass
NumProcs == 2           \* concurrent callers

MaxCount == RateLimit + MaxOver

\* The observer's fixed window of an identity: where it started (-1: none yet),
\* how many increments fell in it, and whether every command so far got through
NoWindow == [start |-> -1, count |-> 0, clean |-> TRUE]

Observe(w, t, seconds) ==
    IF w.start = -1 \/ t >= w.start + seconds
    THEN [w EXCEPT !.start = t, !.count = 1]
    ELSE [w EXCEPT !.count = @ + 1]

NotWritten == [has |-> FALSE, val |-> 0, at |-> 0, ttl |-> 0]

Idle == [pc |-> "idle", identifier |-> "", current |-> 0, start |-> -1]

InitStore(keys, ids) ==
    /\ redis = [k \in keys |-> NoEntry]
    /\ now = 0
    /\ last = [op |-> "none"]
    /\ window = [i \in ids |-> NoWindow]
    /\ granted = [i \in ids |-> [t \in 0..MaxNow |-> 0]]
    /\ procs = [p \in 1..NumProcs |-> Idle]
    /\ written = [k \in keys |-> NotWritten]

\* Time passes
Advance(seconds, horizon) ==
    /\ now + seconds <= horizon
    /\ now' = now + seconds
    /\ UNCHANGED <<redis_client, redis, last, params, window, granted, procs, written>>

Tick == Advance(1, MaxNow)

\* The server drops an expired entry
Purge(k) ==
    /\ redis[k].has
    /\ ~Live(redis, k, now)
    /\ redis' = [redis EXCEPT ![k] = NoEntry]
    /\ UNCHANGED <<redis_client, now, last, params, window, granted, procs, written>>

\* ------------------------------------------------------------------------
\* SpecRL: sequential calls of the rate limiter, the store failing at will

\* cache_service.increment_rate_limit(identifier, limit, window)
TryAcquire(identifier, fault) ==
    LET key == RateKey(identifier)
        r == IncrementRateLimit(redis_client, redis, now, identifier,
                                params.limit, params.seconds, fault)
        counted == redis_client # None /\ fault # "incr"
    IN  /\ fault = "expire" => ~Live(redis, key, now)
        /\ redis_client = None => fault = "none"
        /\ ~counted \/ ~Live(redis, key, now) \/ redis[key].val < MaxCount
        /\ redis' = r.store
        /\ last' = [op |-> "increment", identifier |-> identifier, fault |-> fault,
                    allowed |-> r.allowed, raised |-> FALSE]
        /\ window' = [window EXCEPT ![identifier] =
                         [(IF counted THEN Observe(@, now, params.seconds) ELSE @)
                              EXCEPT !.clean = @ /\ fault = "none" /\ redis_client # None]]
        /\ UNCHANGED <<redis_client, now, params, granted, procs, written>>

\* The counted calls of the identity's window that is open at time t
CallsInWindow(w, t, seconds) ==
    IF w.start >= 0 /\ t < w.start + seconds THEN w.count ELSE 0

\* cache_service.get_rate_limit_status(identifier); last.k is the number of
\* counted calls in the window open at the time of the call
Status(identifier, fault) ==
    /\ redis_client = None => fault = "none"
    /\ last' = [op |-> "status", identifier |-> identifier, fault |-> fault,
                status |-> GetRateLimitStatus(redis_client, redis, now, identifier, fault),
                raised |-> FALSE,
                k |-> CallsInWindow(window[identifier], now, params.seconds)]
    /\ UNCHANGED <<redis_client, redis, now, params, window, granted, procs, written>>

InitRL ==
    /\ InitGen
    /\ InitTiers
    /\ InitText
    /\ redis_client \in {"connected", None}
    /\ params = [limit |-> RateLimit, seconds |-> WindowSeconds]
    /\ InitStore(RateKeys, Identities)

RLIdentities == {GetClientIdentifier(c) : c \in Clients}

NextRL ==
    \/ \E i \in RLIdentities, f \in {"none", "incr", "expire"} : TryAcquire(i, f)
    \/ \E i \in RLIdentities, f \in {"none", "get", "ttl"} : Status(i, f)
    \/ Tick
    \/ \E i \in RLIdentities : Purge(RateKey(i))

vars == <<gvars, rvars, qvars, xvars>>

SpecRL == InitRL /\ [][NextRL /\ UNCHANGED <<gvars, qvars, xvars>>]_vars

\* ------------------------------------------------------------------------
\* SpecConc: concurrent calls of increment_rate_limit for the identity the
\* generate endpoint uses, the store reachable.  Each Redis command is one step.
ConcIdentity == "default_client"

\* line 137: current = self.redis_client.incr(key)
P_Incr(p) ==
    LET key == RateKey(ConcIdentity)
        incremented == RedisIncr(redis, key, now)
        seen == IF incremented[key].val = 1
                THEN [window[ConcIdentity] EXCEPT !.start = now, !.count = 1]
                ELSE [window[ConcIdentity] EXCEPT !.count = @ + 1]
    IN  /\ procs[p].pc = "idle"
        /\ ~Live(redis, key, now) \/ redis[key].val < MaxCount
        /\ redis' = incremented
        /\ window' = [window EXCEPT ![ConcIdentity] = seen]
        /\ procs' = [procs EXCEPT ![p] = [pc |-> "incremented", identifier |-> ConcIdentity,
                                          current |-> incremented[key].val, start |-> seen.start]]
        /\ UNCHANGED <<redis_client, now, last, params, granted, written>>

\* lines 138-139: if current == 1: self.redis_client.expire(key, window)
P_Expire(p) ==
    /\ procs[p].pc = "incremented"
    /\ redis' = IF procs[p].current = 1
                THEN RedisExpire(redis, RateKey(procs[p].identifier), now, params.seconds)
                ELSE redis
    /\ procs' = [procs EXCEPT ![p].pc = "compare"]
    /\ UNCHANGED <<redis_client, now, last, params, window, granted, written>>

\* lines 141-146: the comparison with the limit, and the return
P_Return(p) ==
    LET allowed == ~Exceeds(procs[p].current, params.limit)
    IN  /\ procs[p].pc = "compare"
        /\ last' = [op |-> "increment", identifier |-> procs[p].identifier, fault |-> "none",
                    allowed |-> allowed, raised |-> FALSE]
        /\ granted' = [granted EXCEPT ![procs[p].identifier][procs[p].start] =
                          IF allowed THEN @ + 1 ELSE @]
        /\ procs' = [procs EXCEPT ![p] = Idle]
        /\ UNCHANGED <<redis_client, redis, now, params, window, written>>

InitConc ==
    /\ InitGen
    /\ InitTiers
    /\ InitText
    /\ redis_client = "connected"
    /\ params = [limit |-> RateLimit, seconds |-> WindowSeconds]
    /\ InitStore(RateKeys, Identities)

NextConc ==
    \/ \E p \in 1..NumProcs : P_Incr(p)
    \/ \E p \in 1..NumProcs : P_Expire(p)
    \/ \E p \in 1..NumProcs : P_Return(p)
    \/ Tick
    \/ Purge(RateKey(ConcIdentity))

SpecConc == InitConc /\ [][NextConc /\ UNCHANGED <<gvars, qvars, xvars>>]_vars

\* ------------------------------------------------------------------------
\* SpecClients: the rate-limit step of the generate endpoint, and the
\* /rate-limit-status endpoint, called by several clients
PipeLimit == 10
PipeWindow == 3600
MaxWindows == 1         \* bound: the clock runs over this many windows

\* main.generate_quiz, lines 256-266: 0 when the request goes on, else the status
\* code of the rejection (the detail reads rate_limit_status['resets_in'])
GenerateRateCheck(c, fault, sfault) ==
    LET identifier == GenerateClientId(c)
        key == RateKey(identifier)
        r == IncrementRateLimit(redis_client, redis, now, identifier, PipeLimit, PipeWindow, fault)
        st == GetRateLimitStatus(redis_client, r.store, now, identifier, sfault)
        counted == redis_client # None /\ fault # "incr"
        own == GetClientIdentifier(c)
    IN  /\ fault = "expire" => ~Live(redis, key, now)
        /\ redis_client = None => (fault = "none" /\ sfault = "none")
        /\ r.allowed => sfault = "none"
        /\ ~counted \/ ~Live(redis, key, now) \/ redis[key].val < PipeLimit + MaxOver
        /\ redis' = r.store
        /\ last' = [op |-> "generate", client |-> c, fault |-> fault, allowed |-> r.allowed,
                    code |-> IF r.allowed THEN 0 ELSE IF st.resets_in = 0 THEN 500 ELSE 429]
        /\ window' = [window EXCEPT ![own] =
                         [(IF counted THEN Observe(@, now, PipeWindow) ELSE @)
                              EXCEPT !.clean = @ /\ fault = "none" /\ redis_client # None]]
        /\ UNCHANGED <<redis_client, now, params, granted, procs, written>>

InitClients ==
    /\ InitGen
    /\ InitTiers
    /\ InitText
    /\ redis_client \in {"connected", None}
    /\ params = [limit |-> PipeLimit, seconds |-> PipeWindow]
    /\ InitStore(RateKeys, Identities)

NextClients ==
    \/ \E c \in Clients, f \in {"none", "incr", "expire"}, sf \in {"none", "get"} :
          GenerateRateCheck(c, f, sf)
    \/ Advance(PipeWindow, MaxWindows * PipeWindow)
    \/ Purge(RateKey("default_client"))

SpecClients == InitClients /\ [][NextClients /\ UNCHANGED <<gvars, qvars, xvars>>]_vars

\* ------------------------------------------------------------------------
\* SpecCache: the cache operations of CacheService, the store failing at will.
\* `fault` names the Redis command of the call that raises ("none": no one);
\* a command that raises has not been applied.
MaxTtl == 2             \* bound: entries live for 1..MaxTtl seconds

Payloads == {"v1", "v2"}
Urls == {"u1"}
UserIds == {"default_client"}

\* json.dumps(value, default=str) and json.loads, on JSON-native payloads
JsonDumps(v) == [json |-> v]
JsonLoads(s) == s.json

\* hashlib.md5(url.encode()).hexdigest()
Md5(url) == IF url = "u1" THEN "h1" ELSE "h2"

QuizKey(quiz_id) == <<"quiz", quiz_id>>
WikipediaKey(url) == <<"wikipedia", Md5(url)>>
QuizListKey(user_id) == <<"user_quizzes", user_id>>
CacheKeys == {QuizKey(q) : q \in QuizIds} \cup {WikipediaKey(u) : u \in Urls}
                 \cup {QuizListKey(u) : u \in UserIds}

CachePutThrough(client, store, t, key, value, ttl, fault) ==
    IF client = None THEN [ok |-> FALSE, store |-> store]
    ELSE [ok |-> fault = "none", store |-> RedisSetex(store, key, t, ttl, JsonDumps(value))]

\* the body shared by cache_quiz, cache_wikipedia_content and cache_quiz_list
CachePut(client, store, t, key, value, ttl, fault) ==
    IF client = None THEN [ok |-> FALSE, store |-> store]
    ELSE IF fault = "setex" THEN [ok |-> FALSE, store |-> store]
    ELSE [ok |-> TRUE, store |-> RedisSetex(store, key, t, ttl, JsonDumps(value))]

\* the body shared by get_cached_quiz, get_cached_wikipedia_content and
\* get_cached_quiz_list: <<value>>, or <<>> for None
CacheGet(client, store, t, key, fault) ==
    LET cached == RedisGet(store, key, t)
    IN  IF client = None THEN <<>>
        ELSE IF fault = "get" THEN <<>>
        ELSE IF cached # <<>> THEN <<JsonLoads(cached[1])>> ELSE <<>>

CacheQuiz(client, store, t, quiz_id, data, ttl, fault) ==
    CachePut(client, store, t, QuizKey(quiz_id), data, ttl, fault)
GetCachedQuiz(client, store, t, quiz_id, fault) ==
    CacheGet(client, store, t, QuizKey(quiz_id), fault)
CacheWikipediaContent(client, store, t, url, content_data, ttl, fault) ==
    CachePut(client, store, t, WikipediaKey(url), content_data, ttl, fault)
GetCachedWikipediaContent(client, store, t, url, fault) ==
    CacheGet(client, store, t, WikipediaKey(url), fault)
CacheQuizList(client, store, t, user_id, quiz_payload, ttl, fault) ==
    CachePut(client, store, t, QuizListKey(user_id), quiz_payload, ttl, fault)
GetCachedQuizList(client, store, t, user_id, fault) ==
    CacheGet(client, store, t, QuizListKey(user_id), fault)

\* a pattern is "*" or "<namespace>:*"
Patterns == {"*", "quiz", "wikipedia", "user_quizzes"}
Matches(pattern, key) == pattern = "*" \/ pattern = key[1]

\* KEYS pattern: the live keys that match
RedisKeys(store, t, pattern) ==
    {k \in DOMAIN store : Live(store, k, t) /\ Matches(pattern, k)}

\* DEL key [key ...]
RedisDelete(store, keys) == [k \in DOMAIN store |-> IF k \in keys THEN NoEntry ELSE store[k]]

\* DBSIZE: the keys the server holds, the expired ones it has not dropped included
RedisDbsize(store) == Cardinality({k \in DOMAIN store : store[k].has})

\* clear_cache(pattern): a bool
ClearCache(client, store, t, pattern, fault) ==
    LET keys == RedisKeys(store, t, pattern)
    IN  IF client = None THEN [ok |-> FALSE, store |-> store]
        ELSE IF fault = "keys" THEN [ok |-> FALSE, store |-> store]
        ELSE IF keys = {} THEN [ok |-> TRUE, store |-> store]
        ELSE IF fault = "delete" THEN [ok |-> FALSE, store |-> store]
        ELSE [ok |-> TRUE, store |-> RedisDelete(store, keys)]

\* get_cache_stats(): the status and the key count (-1: no stats)
GetCacheStats(client, store, fault) ==
    IF client = None THEN [status |-> "disconnected", total_keys |-> -1]
    ELSE IF fault \in {"info", "dbsize"} THEN [status |-> "error", total_keys |-> -1]
    ELSE [status |-> "connected", total_keys |-> RedisDbsize(store)]

\* Two stores hold the same entries
SameStore(s1, s2) ==
    \A k \in DOMAIN s1 :
        /\ s1[k].has = s2[k].has
        /\ s1[k].exp = s2[k].exp
        /\ s1[k].has => s1[k].val = s2[k].val

PutCall(key, r, value, ttl, fault) ==
    /\ redis_client = None => fault = "none"
    /\ redis' = r.store
    /\ last' = [op |-> "put", key |-> key, fault |-> fault, ok |-> r.ok, at |-> now,
                changed |-> ~SameStore(r.store, redis), raised |-> FALSE]
    /\ written' = IF r.ok
                  THEN [written EXCEPT ![key] = [has |-> TRUE, val |-> value, at |-> now, ttl |-> ttl]]
                  ELSE written
    /\ UNCHANGED <<redis_client, now, params, window, granted, procs>>

GetCall(key, res, fault) ==
    /\ redis_client = None => fault = "none"
    /\ last' = [op |-> "get", key |-> key, fault |-> fault, res |-> res, at |-> now,
                changed |-> FALSE, raised |-> FALSE]
    /\ UNCHANGED <<redis_client, redis, now, params, window, granted, procs, written>>

\* A Python bool read as a number: True == 1 and False == 0
BoolAsInt(b) == IF b THEN 1 ELSE 0

\* The keys that pattern does not match are in s2 what they are in s1
OthersKept(s1, s2, pattern) ==
    \A k \in DOMAIN s1 : ~Matches(pattern, k) => s2[k] = s1[k]

\* last.removed is the number of keys the call deleted, last.ret the value it
\* returned
ClearCall(pattern, fault) ==
    LET r == ClearCache(redis_client, redis, now, pattern, fault)
        gone == {k \in DOMAIN redis : Live(redis, k, now) /\ ~Live(r.store, k, now)}
    IN  /\ redis_client = None => fault = "none"
        /\ fault = "delete" => RedisKeys(redis, now, pattern) # {}
        /\ redis' = r.store
        /\ last' = [op |-> "clear", pattern |-> pattern, fault |-> fault, ok |-> r.ok, at |-> now,
                    changed |-> ~SameStore(r.store, redis), raised |-> FALSE,
                    ret |-> BoolAsInt(r.ok), removed |-> Cardinality(gone),
                    kept |-> OthersKept(redis, r.store, pattern)]
        /\ written' = IF r.ok /\ fault = "none"
                      THEN [k \in DOMAIN written |->
                               IF Matches(pattern, k) THEN NotWritten ELSE written[k]]
                      ELSE written
        /\ UNCHANGED <<redis_client, now, params, window, granted, procs>>

StatsCall(fault) ==
    /\ redis_client = None => fault = "none"
    /\ last' = [op |-> "stats", fault |-> fault, at |-> now,
                stats |-> GetCacheStats(redis_client, redis, fault),
                changed |-> FALSE, raised |-> FALSE]
    /\ UNCHANGED <<redis_client, redis, now, params, window, granted, procs, written>>

InitCache ==
    /\ InitGen
    /\ InitTiers
    /\ InitText
    /\ redis_client \in {"connected", None}
    /\ params = [limit |-> RateLimit, seconds |-> WindowSeconds]
    /\ InitStore(CacheKeys, Identities)

\* SpecCache: puts, gets and clears of quiz entries while time passes
NextCache ==
    \/ \E q \in QuizIds, v \in Payloads, ttl \in 1..MaxTtl, f \in {"none", "setex"} :
          PutCall(QuizKey(q), CacheQuiz(redis_client, redis, now, q, v, ttl, f), v, ttl, f)
    \/ \E q \in QuizIds, f \in {"none", "get"} :
          GetCall(QuizKey(q), GetCachedQuiz(redis_client, redis, now, q, f), f)
    \/ \E pattern \in {"*", "wikipedia"}, f \in {"none", "keys", "delete"} : ClearCall(pattern, f)
    \/ Tick
    \/ \E k \in CacheKeys : Purge(k)

\* SpecCacheOps: every cache operation, at one instant
NextCacheOps ==
    \/ \E q \in QuizIds, v \in Payloads, ttl \in 1..MaxTtl, f \in {"none", "setex"} :
          PutCall(QuizKey(q), CacheQuiz(redis_client, redis, now, q, v, ttl, f), v, ttl, f)
    \/ \E q \in QuizIds, f \in {"none", "get"} :
          GetCall(QuizKey(q), GetCachedQuiz(redis_client, redis, now, q, f), f)
    \/ \E u \in Urls, v \in Payloads, ttl \in 1..MaxTtl, f \in {"none", "setex"} :
          PutCall(WikipediaKey(u), CacheWikipediaContent(redis_client, redis, now, u, v, ttl, f), v, ttl, f)
    \/ \E u \in Urls, f \in {"none", "get"} :
          GetCall(WikipediaKey(u), GetCachedWikipediaContent(redis_client, redis, now, u, f), f)
    \/ \E u \in UserIds, v \in Payloads, ttl \in 1..MaxTtl, f \in {"none", "setex"} :
          PutCall(QuizListKey(u), CacheQuizList(redis_client, redis, now, u, v, ttl, f), v, ttl, f)
    \/ \E u \in UserIds, f \in {"none", "get"} :
          GetCall(QuizListKey(u), GetCachedQuizList(redis_client, redis, now, u, f), f)
    \/ \E pattern \in Patterns, f \in {"none", "keys", "delete"} : ClearCall(pattern, f)
    \/ \E f \in {"none", "info", "dbsize"} : StatsCall(f)

SpecCache == InitCache /\ [][NextCache /\ UNCHANGED <<gvars, qvars, xvars>>]_vars

SpecCacheOps == InitCache /\ [][NextCacheOps /\ UNCHANGED <<gvars, qvars, xvars>>]_vars

\* ------------------------------------------------------------------------
\* SpecTiers: quizzes are generated, saved and read back through the cache,
\* the in-process memo and the quiz store
QuizTtl == 3600

\* The drafts generate_quiz can return for one article and the smallest count
DraftBody == <<LongA, LongB, LongC, LongD>>
DraftResults ==
    {AfterLoop(ParserParse(k, MinQuestions)[1], DraftBody, MinQuestions) : k \in StructuredKinds}
        \cup {AfterLoop(ExtractJsonManually(k, MinQuestions), DraftBody, MinQuestions) :
                  k \in {"json_in_prose", "no_json"}}
        \cup {OnTimeout(DraftBody, MinQuestions)}
Drafts == {r.questions : r \in {x \in DraftResults : x.kind = "returned"}}

CountDifficultyAll(qs, d) == Len(qs)

\* save_quiz, lines 65-67: sum(1 for q in quiz_questions if q.get("difficulty") == d)
CountDifficulty(qs, d) == Cardinality({i \in DOMAIN qs : qs[i].difficulty = d})

\* datetime.isoformat()
IsoFormat(t) == <<"iso", t>>

\* save_quiz, lines 69-83: the QuizRecord written at time t
QuizRecord(quiz_id, article, qs, topics, t) ==
    [id |-> quiz_id, title |-> article, quiz_json |-> JsonDumps(qs), related_topics |-> topics,
     easy_count |-> CountDifficulty(qs, "easy"),
     medium_count |-> CountDifficulty(qs, "medium"),
     hard_count |-> CountDifficulty(qs, "hard"),
     generated_at |-> t]

\* QuizRepository._serialize(record)
Serialize(record) ==
    [id |-> record.id, title |-> record.title, quiz |-> JsonLoads(record.quiz_json),
     related_topics |-> record.related_topics,
     generated_at |-> IsoFormat(record.generated_at),
     difficulty_distribution |-> [easy |-> record.easy_count, medium |-> record.medium_count,
                                  hard |-> record.hard_count]]

RepoGetQuizRestamped(database, quiz_id) ==
    IF database[quiz_id] = <<>> THEN <<>>
    ELSE <<[Serialize(database[quiz_id][1]) EXCEPT !.generated_at = IsoFormat(-1)]>>

\* QuizRepository.get_quiz(quiz_id): <<payload>>, or <<>> for None
RepoGetQuiz(database, quiz_id) ==
    IF database[quiz_id] = <<>> THEN <<>> ELSE <<Serialize(database[quiz_id][1])>>

NeverTruthy(x) == FALSE

\* `if cached_quiz:`, `if quiz_id in quizzes_db:`, `if quiz_data:`
Truthy(x) == x # <<>>

\* main._get_quiz_payload(quiz_id): what it returns, the tiers it read and wrote
\* in order, and the memo and the cache it leaves
GetQuizPayload(client, store, t, memo, database, quiz_id, gfault, pfault) ==
    LET cached_quiz == GetCachedQuiz(client, store, t, quiz_id, gfault)
        stored_quiz == RepoGetQuiz(database, quiz_id)
        put == CacheQuiz(client, store, t, quiz_id, stored_quiz[1], QuizTtl, pfault)
    IN  IF Truthy(cached_quiz)
        THEN [res |-> cached_quiz, reads |-> <<"cache">>, writes |-> <<>>,
              memo |-> memo, store |-> store]
        ELSE IF Truthy(memo[quiz_id])
        THEN [res |-> memo[quiz_id], reads |-> <<"cache", "memo">>, writes |-> <<>>,
              memo |-> memo, store |-> store]
        ELSE IF Truthy(stored_quiz)
        THEN [res |-> stored_quiz, reads |-> <<"cache", "memo", "store">>,
              writes |-> <<"memo", "cache">>,
              memo |-> [memo EXCEPT ![quiz_id] = stored_quiz], store |-> put.store]
        ELSE [res |-> stored_quiz, reads |-> <<"cache", "memo", "store">>, writes |-> <<>>,
              memo |-> memo, store |-> store]

FirstServed(s, quiz_id, res) == IF s[quiz_id] = <<>> THEN [s EXCEPT ![quiz_id] = res] ELSE s

GenerateAndSaveMemoFirst(quiz_id, draft, saved, fault) ==
    LET record == QuizRecord(quiz_id, "Test", draft, Topics, now)
        quiz_response == Serialize(record)
        put == CacheQuiz(redis_client, redis, now, quiz_id, quiz_response, QuizTtl, fault)
    IN  /\ db[quiz_id] = <<>>
        /\ redis_client = None => fault = "none"
        /\ ~saved => fault = "none"
        /\ quizzes_db' = [quizzes_db EXCEPT ![quiz_id] = <<quiz_response>>]
        /\ IF saved
           THEN /\ db' = [db EXCEPT ![quiz_id] = <<record>>]
                /\ redis' = put.store
                /\ served' = FirstServed(served, quiz_id, <<quiz_response>>)
                /\ last' = [op |-> "generate", id |-> quiz_id, res |-> <<quiz_response>>,
                            code |-> 200]
           ELSE /\ last' = [op |-> "generate", id |-> quiz_id, res |-> <<>>, code |-> 500]
                /\ UNCHANGED <<db, redis, served>>
        /\ UNCHANGED <<redis_client, now, params, window, granted, procs, written>>

\* main.generate_quiz, lines 294-332: a draft was generated for a fresh quiz id;
\* save_quiz, the memo, the cache, the response (`saved` FALSE: save_quiz raises)
GenerateAndSave(quiz_id, draft, saved, fault) ==
    LET record == QuizRecord(quiz_id, "Test", draft, Topics, now)
        quiz_response == Serialize(record)
        put == CacheQuiz(redis_client, redis, now, quiz_id, quiz_response, QuizTtl, fault)
    IN  /\ db[quiz_id] = <<>>
        /\ redis_client = None => fault = "none"
        /\ ~saved => fault = "none"
        /\ IF saved
           THEN /\ db' = [db EXCEPT ![quiz_id] = <<record>>]
                /\ quizzes_db' = [quizzes_db EXCEPT ![quiz_id] = <<quiz_response>>]
                /\ redis' = put.store
                /\ served' = FirstServed(served, quiz_id, <<quiz_response>>)
                /\ last' = [op |-> "generate", id |-> quiz_id, res |-> <<quiz_response>>,
                            code |-> 200]
           ELSE /\ last' = [op |-> "generate", id |-> quiz_id, res |-> <<>>, code |-> 500]
                /\ UNCHANGED <<db, quizzes_db, redis, served>>
        /\ UNCHANGED <<redis_client, now, params, window, granted, procs, written>>

\* main.get_quiz(quiz_id), lines 395-413 (`dbfault`: the store's get_quiz raises)
GetQuiz(quiz_id, gfault, pfault, dbfault) ==
    LET r == GetQuizPayload(redis_client, redis, now, quizzes_db, db, quiz_id, gfault, pfault)
        cacheHit == redis_client # None /\ gfault = "none" /\ Live(redis, QuizKey(quiz_id), now)
        memoHit == quizzes_db[quiz_id] # <<>>
        storeHit == db[quiz_id] # <<>>
        seen == [cache |-> cacheHit, memo |-> memoHit, store |-> storeHit]
    IN  /\ redis_client = None => (gfault = "none" /\ pfault = "none")
        /\ pfault # "none" => (~cacheHit /\ ~memoHit /\ storeHit /\ ~dbfault)
        /\ dbfault => (~cacheHit /\ ~memoHit)
        /\ IF dbfault
           THEN /\ last' = [op |-> "get", id |-> quiz_id, res |-> <<>>, code |-> 500,
                            reads |-> <<"cache", "memo", "store">>, writes |-> <<>>,
                            seen |-> seen, memo_after |-> quizzes_db[quiz_id]]
                /\ UNCHANGED <<quizzes_db, redis, served>>
           ELSE /\ quizzes_db' = r.memo
                /\ redis' = r.store
                /\ served' = IF r.res = <<>> THEN served ELSE FirstServed(served, quiz_id, r.res)
                /\ last' = [op |-> "get", id |-> quiz_id, res |-> r.res,
                            code |-> IF r.res = <<>> THEN 404 ELSE 200,
                            reads |-> r.reads, writes |-> r.writes,
                            seen |-> seen, memo_after |-> r.memo[quiz_id]]
        /\ UNCHANGED <<db, redis_client, now, params, window, granted, procs, written>>

\* The server process starts again: quizzes_db = {} (main.py, line 225)
Restart ==
    /\ \E q \in QuizIds : quizzes_db[q] # <<>>
    /\ quizzes_db' = [q \in QuizIds |-> <<>>]
    /\ last' = [op |-> "restart"]
    /\ UNCHANGED <<db, served, redis_client, redis, now, params, window, granted, procs, written>>

InitTiersSpec ==
    /\ InitGen
    /\ InitTiers
    /\ InitText
    /\ redis_client \in {"connected", None}
    /\ params = [limit |-> PipeLimit, seconds |-> PipeWindow]
    /\ InitStore(CacheKeys, Identities)

NextTiers ==
    \/ /\ \E q \in QuizIds, draft \in Drafts, saved \in BOOLEAN, f \in {"none", "setex"} :
             GenerateAndSave(q, draft, saved, f)
       /\ UNCHANGED <<gvars, xvars>>
    \/ /\ \E q \in QuizIds, gf \in {"none", "get"}, pf \in {"none", "setex"}, dbf \in BOOLEAN :
             GetQuiz(q, gf, pf, dbf)
       /\ UNCHANGED <<gvars, xvars>>
    \/ Restart /\ UNCHANGED <<gvars, xvars>>
    \/ ClearCall("*", "none") /\ UNCHANGED <<gvars, qvars, xvars>>
    \/ Advance(QuizTtl, MaxWindows * QuizTtl) /\ UNCHANGED <<gvars, qvars, xvars>>
    \/ \E q \in QuizIds : Purge(QuizKey(q)) /\ UNCHANGED <<gvars, qvars, xvars>>

SpecTiers == InitTiersSpec /\ [][NextTiers]_vars

\* ------------------------------------------------------------------------
\* SpecExtract: _extract_json_manually on a provider text.  A text is a
\* sequence of tokens: "p" a stretch of prose without braces, "{" and "}" a
\* brace character in the prose, "J" the text of one JSON object (which begins
\* with '{' and ends with '}').
MaxText == 4            \* bound: longest text, in tokens

Tokens == {"p", "{", "}", "J"}
Texts == UNION {[1..n -> Tokens] : n \in 0..MaxText}

HasOpen(tok) == tok \in {"{", "J"}
HasClose(tok) == tok \in {"}", "J"}

\* re.search(r'\{.*\}', response, re.DOTALL): from the first '{' to the last
\* '}' of the text; <<json_str>>, or <<>> without a match
JsonMatch(text) ==
    LET opens == {i \in DOMAIN text : HasOpen(text[i])}
        first == CHOOSE i \in opens : \A j \in opens : i <= j
        closes == {i \in DOMAIN text : HasClose(text[i]) /\ (i > first \/ text[i] = "J")}
        end == CHOOSE i \in closes : \A j \in closes : j <= i
    IN  IF opens = {} THEN <<>>
        ELSE IF {i \in closes : i >= first} = {} THEN <<>>
        ELSE <<SubSeq(text, first, end)>>

\* The object the token "J" spells
TheObject(n) == Quiz("dict", [k \in 1..n |-> LooseQuestion(k)], Topics)

\* json.loads(json_str): <<value>>, or <<>> for JSONDecodeError.  Of the
\* strings a match can be, only the object alone and "{}" are JSON.
JsonLoadsText(json_str, n) ==
    IF json_str = <<"J">> THEN <<TheObject(n)>>
    ELSE IF json_str = <<"{", "}">> THEN <<Quiz("dict", <<>>, <<>>)>>
    ELSE <<>>

\* _fix_and_parse_json(json_str): the two substitutions and the added quote
\* change no text made of these tokens
FixAndParseJson(json_str, n) ==
    LET parsed == JsonLoadsText(json_str, n)
    IN  IF parsed # <<>> THEN parsed[1] ELSE EmptyQuiz

\* _extract_json_manually(response)
ExtractJsonFromText(text, n) ==
    LET json_match == JsonMatch(text)
        parsed == JsonLoadsText(json_match[1], n)
    IN  IF json_match = <<>> THEN EmptyQuiz
        ELSE IF parsed # <<>> THEN parsed[1]
        ELSE FixAndParseJson(json_match[1], n)

ExtractCall ==
    /\ extracted = NoQuiz
    /\ extracted' = ExtractJsonFromText(response, MinQuestions)
    /\ UNCHANGED response

InitExtract ==
    /\ InitGen
    /\ InitTiers
    /\ redis_client = "connected"
    /\ params = [limit |-> RateLimit, seconds |-> WindowSeconds]
    /\ InitStore(RateKeys, Identities)
    /\ response \in Texts
    /\ extracted = NoQuiz

NextExtract == ExtractCall /\ UNCHANGED <<gvars, rvars, qvars>>

SpecExtract == InitExtract /\ [][NextExtract]_vars

\* ------------------------------------------------------------------------
\* SpecPipe: the generate endpoint from the rate-limit check to the response,
\* one request after the other (the handler never awaits, so requests of one
\* server process do not interleave).  "u1" is the text
\* "https://en.wikipedia.org/wiki/A".
ArticleTtl == 7200

Url(scheme, netloc, path) == [scheme |-> scheme, netloc |-> netloc, path |-> path]
RequestUrls ==
    { Url("https", "en.wikipedia.org", "/wiki/A"),
      Url("https", "en.m.wikipedia.org", "/wiki/A"),
      Url("http", "en.wikipedia.org", "/wiki/A"),
      Url("https", "example.org", "/wiki/A"),
      Url("https", "en.wikipedia.org", "/") }

AllowedDomains ==
    {"en.wikipedia.org", "wikipedia.org", "www.wikipedia.org", "en.m.wikipedia.org",
     "m.wikipedia.org"}

\* f"https://en.wikipedia.org{parsed.path}"
SafeUrl(path) == IF path = "/wiki/A" THEN "u1" ELSE "u2"

SanitizeKeepsHost(url) ==
    IF url.netloc \notin AllowedDomains \/ url.scheme # "https" \/ url.path \in {"", "/"}
    THEN <<>>
    ELSE <<IF url.netloc = "en.wikipedia.org" THEN SafeUrl(url.path) ELSE "u2">>

\* sanitize_wikipedia_url(url): <<safe_url>>, or <<>> when it raises ValueError
SanitizeWikipediaUrl(url) ==
    IF url.netloc \notin AllowedDomains \/ url.scheme # "https" \/ url.path \in {"", "/"}
    THEN <<>>
    ELSE <<SafeUrl(url.path)>>

\* What wikipedia_scraper.scrape_article returns for the article
Article == [title |-> "Test", content |-> DraftBody]

\* The provider's behaviour during one request: the kind of every answer
ProviderKinds ==
    {"structured", "structured_bad_answer", "structured_3_options",
     "structured_bad_difficulty", "json_no_explanation", "provider_error"}
InvalidKinds == ProviderKinds \ {"structured", "provider_error"}

\* llm_service.generate_quiz(title, content, n, None) with a provider that
\* answers at once and with the same kind at every call
LlmServiceResult(resp, t, body, n) ==
    LET parsed == ParserParse(resp, n)
        manual == ExtractJsonManually(resp, n)
    IN  IF InvalidInput(t, body, n) THEN Raised("ValueError")
        ELSE IF resp = "provider_error" THEN Raised("ProviderError")
        ELSE IF parsed # <<>> THEN AfterLoop(parsed[1], Truncate(body), n)
        ELSE IF manual.shape = "odd" THEN Raised("TypeError")
        ELSE AfterLoop(manual, Truncate(body), n)

\* The results for the scraped article, computed once
ArticleResults ==
    [k \in ProviderKinds |-> LlmServiceResult(k, Article.title, Article.content, MinQuestions)]

\* llm_service.generate_quiz(title=article_data["title"], content=article_data["content"],
\* question_count=request.question_count, ...)
ServiceCall(resp, article_data) ==
    IF article_data = Article THEN ArticleResults[resp]
    ELSE LlmServiceResult(resp, article_data.title, article_data.content, MinQuestions)

\* str(uuid.uuid4()): an id no quiz has, while there is one
Uuid4(database) == IF database["q1"] = <<>> THEN "q1" ELSE "q2"

EntryChanged(e1, e2) == e1.has # e2.has \/ e1.exp # e2.exp \/ (e1.has /\ e1.val # e2.val)

RateLimitIgnored(allowed) == FALSE

\* main.generate_quiz, line 260: `if not cache_service.increment_rate_limit(...)`
RateLimited(allowed) == ~allowed

SkipWhenArticleKnown(hit) == ~hit

\* main.generate_quiz, lines 295-307: the draft is generated whether or not the
\* article came from the cache
CallsGenerator(hit) == TRUE

\* main.generate_quiz, lines 252-338: the status code, the operations made in
\* order, and the stores the request leaves.  PipeOut is what a request that
\* ends here leaves behind.
PipeOut(code, steps, store, database, memo, id, allowed, hit, gen) ==
    [code |-> code, steps |-> steps, store |-> store, db |-> database, memo |-> memo,
     id |-> id, allowed |-> allowed, hit |-> hit, gen |-> gen]

\* lines 316-332: the quiz is saved, memoised and cached
PipeSaved(qf, rate, hit, store2, obtained, quiz_id, res, record) ==
    PipeOut(200, obtained \o <<"generate", "save", "memo", "cache_quiz">>,
            CacheQuiz(redis_client, store2, now, quiz_id, Serialize(record), QuizTtl, qf).store,
            [db EXCEPT ![quiz_id] = <<record>>],
            [quizzes_db EXCEPT ![quiz_id] = <<Serialize(record)>>], quiz_id,
            rate.allowed, hit, res.source)

\* lines 300-326: a generator that raised, or a save that failed, is a 500
PipeGenerated(saved, qf, rate, hit, article_data, store2, obtained, quiz_id, res) ==
    IF res.kind = "raised"
    THEN PipeOut(500, obtained \o <<"generate">>, store2, db, quizzes_db, "",
                 rate.allowed, hit, res.source)
    ELSE IF ~saved
    THEN PipeOut(500, obtained \o <<"generate", "save">>, store2, db, quizzes_db, "",
                 rate.allowed, hit, res.source)
    ELSE PipeSaved(qf, rate, hit, store2, obtained, quiz_id, res,
                   QuizRecord(quiz_id, article_data.title, res.questions, Topics, now))

\* lines 295-307: a fresh id, then the generator
PipeObtained(resp, saved, qf, rate, hit, article_data, store2, obtained) ==
    IF ~CallsGenerator(hit)
    THEN PipeOut(200, obtained, store2, db, quizzes_db, "", rate.allowed, hit, "")
    ELSE PipeGenerated(saved, qf, rate, hit, article_data, store2, obtained, Uuid4(db),
                       ServiceCall(resp, article_data))

\* lines 277-292: a cached article is used as it is; else the article is
\* scraped and cached, and a scrape that fails is a 400
PipeLookedUp(scraped, pf, resp, saved, qf, rate, safe_url, cached_content) ==
    IF ~Truthy(cached_content) /\ scraped = "fail"
    THEN PipeOut(400, <<"rate_limit", "sanitize", "article_lookup", "fetch">>, rate.store, db,
                 quizzes_db, "", rate.allowed, FALSE, "")
    ELSE PipeObtained(resp, saved, qf, rate, Truthy(cached_content),
                      IF Truthy(cached_content) THEN cached_content[1] ELSE Article,
                      IF Truthy(cached_content) THEN rate.store
                      ELSE CacheWikipediaContent(redis_client, rate.store, now, safe_url[1],
                                                 Article, ArticleTtl, pf).store,
                      IF Truthy(cached_content)
                      THEN <<"rate_limit", "sanitize", "article_lookup">>
                      ELSE <<"rate_limit", "sanitize", "article_lookup", "fetch",
                             "cache_article">>)

\* lines 268-276: a URL that is not accepted is a 400; else the article cache
\* is asked under the sanitized URL
PipeSanitized(gf, scraped, pf, resp, saved, qf, rate, safe_url) ==
    IF safe_url = <<>>
    THEN PipeOut(400, <<"rate_limit", "sanitize">>, rate.store, db, quizzes_db, "",
                 rate.allowed, FALSE, "")
    ELSE PipeLookedUp(scraped, pf, resp, saved, qf, rate, safe_url,
                      GetCachedWikipediaContent(redis_client, rate.store, now, safe_url[1], gf))

\* lines 260-266: a refused call reads the limit's status and is a 429 (a 500
\* when building the 429 fails)
PipeChecked(url, sf, gf, scraped, pf, resp, saved, qf, rate) ==
    IF RateLimited(rate.allowed)
    THEN PipeOut(IF GetRateLimitStatus(redis_client, rate.store, now, "default_client",
                                       sf).resets_in = 0 THEN 500 ELSE 429,
                 <<"rate_limit", "rate_status">>, rate.store, db, quizzes_db, "",
                 rate.allowed, FALSE, "")
    ELSE PipeSanitized(gf, scraped, pf, resp, saved, qf, rate, SanitizeWikipediaUrl(url))

GeneratePipeline(url, rf, sf, gf, scraped, pf, resp, saved, qf) ==
    PipeChecked(url, sf, gf, scraped, pf, resp, saved, qf,
                IncrementRateLimit(redis_client, redis, now, "default_client", PipeLimit,
                                   PipeWindow, rf))

\* The stores a request changed
Wrote(r) ==
    {"db" : x \in {1} \cap (IF r.db # db THEN {1} ELSE {})}
        \cup {"memo" : x \in {1} \cap (IF r.memo # quizzes_db THEN {1} ELSE {})}
        \cup {"article_cache" : x \in {u \in Urls : EntryChanged(r.store[WikipediaKey(u)],
                                                              redis[WikipediaKey(u)])}}
        \cup {"quiz_cache" : x \in {q \in QuizIds : EntryChanged(r.store[QuizKey(q)],
                                                              redis[QuizKey(q)])}}

\* One request to POST /api/quizzes/generate.  last.due says that an article
\* entry written less than ArticleTtl seconds ago exists; last.clean that the
\* cache was reachable in the article lookup and the article write.
GenerateRequest(url, rf, sf, gf, scraped, pf, resp, saved, qf) ==
    \E r \in {GeneratePipeline(url, rf, sf, gf, scraped, pf, resp, saved, qf)} :
    LET key == RateKey("default_client")
        akey == WikipediaKey(SafeUrl(url.path))
        counted == redis_client # None /\ rf # "incr"
        cachedNow == "cache_article" \in Range(r.steps) /\ redis_client # None /\ pf = "none"
    IN  /\ redis_client = None =>
              (rf = "none" /\ sf = "none" /\ gf = "none" /\ pf = "none" /\ qf = "none")
        /\ rf = "expire" => ~Live(redis, key, now)
        /\ ~counted \/ ~Live(redis, key, now) \/ redis[key].val < PipeLimit + MaxOver
        /\ r.id # "" => db[r.id] = <<>>
        /\ "rate_status" \notin Range(r.steps) => sf = "none"
        /\ "article_lookup" \notin Range(r.steps) => gf = "none"
        /\ "fetch" \notin Range(r.steps) => scraped = "ok"
        /\ "cache_article" \notin Range(r.steps) => pf = "none"
        /\ "generate" \notin Range(r.steps) => resp = "structured"
        /\ "save" \notin Range(r.steps) => saved
        /\ "cache_quiz" \notin Range(r.steps) => qf = "none"
        /\ redis' = r.store
        /\ db' = r.db
        /\ quizzes_db' = r.memo
        /\ written' = IF cachedNow
                      THEN [written EXCEPT ![akey] = [has |-> TRUE, val |-> 0, at |-> now,
                                                      ttl |-> ArticleTtl]]
                      ELSE written
        /\ last' = [op |-> "generate", code |-> r.code, steps |-> r.steps, id |-> r.id,
                    host |-> url.netloc, allowed |-> r.allowed, gen |-> r.gen, hit |-> r.hit, invalid |-> resp \in InvalidKinds, wrote |-> Wrote(r),
                    fresh |-> r.id # "" /\ db[r.id] = <<>> /\ quizzes_db[r.id] = <<>>
                                  /\ ~redis[QuizKey(r.id)].has,
                    clean |-> redis_client # None /\ gf = "none" /\ pf = "none",
                    due |-> written[akey].has /\ now < written[akey].at + written[akey].ttl]
        /\ UNCHANGED <<served, redis_client, now, params, window, granted, procs>>

InitPipe ==
    /\ InitGen
    /\ InitTiers
    /\ InitText
    /\ redis_client \in {"connected", None}
    /\ params = [limit |-> PipeLimit, seconds |-> PipeWindow]
    /\ InitStore(CacheKeys \cup RateKeys \cup {WikipediaKey("u2")}, Identities)

\* The operations a request makes when nothing after its first choices fails
Probe(url, rf, sf, gf, scraped, pf, resp, saved) ==
    Range(GeneratePipeline(url, rf, sf, gf, scraped, pf, resp, saved, "none").steps)

\* The values to try for an input that matters only when the request makes
\* the operation `step`
Try(step, steps, values, default) == IF step \in steps THEN values ELSE {default}

NextPipe ==
    \/ /\ \E url \in RequestUrls, rf \in {"none"} :
          \E sf \in Try("rate_status", Probe(url, rf, "none", "none", "ok", "none", "structured", TRUE),
                        {"none", "get"}, "none"),
             gf \in {"none"} :
          \E scraped \in Try("fetch", Probe(url, rf, sf, gf, "ok", "none", "structured", TRUE),
                             {"ok", "fail"}, "ok") :
          \E pf \in Try("cache_article", Probe(url, rf, sf, gf, scraped, "none", "structured", TRUE),
                        {"none", "setex"}, "none"),
             resp \in Try("generate", Probe(url, rf, sf, gf, scraped, "none", "structured", TRUE),
                          ProviderKinds, "structured") :
          \E saved \in Try("save", Probe(url, rf, sf, gf, scraped, pf, resp, TRUE),
                           BOOLEAN, TRUE) :
          \E qf \in {"none"} :
             GenerateRequest(url, rf, sf, gf, scraped, pf, resp, saved, qf)
       /\ UNCHANGED <<gvars, xvars>>
    \/ Advance(PipeWindow, (MaxWindows + 1) * PipeWindow) /\ UNCHANGED <<gvars, qvars, xvars>>

SpecPipe == InitPipe /\ [][NextPipe]_vars

\* ------------------------------------------------------------------------
\* SpecList: the quiz-list endpoint over the quiz store and the list cache,
\* while quizzes are saved and time passes
ListTtl == 300

\* The query parameters: None is a parameter the request does not carry.
\* "<>" is a search text that sanitize_user_input empties.
ListRequest(page, limit, search, difficulty) ==
    [page |-> page, limit |-> limit, search |-> search, difficulty |-> difficulty]
ListRequests ==
    { ListRequest(1, 1, None, None), ListRequest(1, 2, None, None),
      ListRequest(2, 1, None, None), ListRequest(1, 2, "test", None),
      ListRequest(1, 2, "<>", None), ListRequest(1, 2, None, "hard"),
      ListRequest(1, 2, None, "bogus") }

\* `if search:`, `if difficulty ...`, `not search`: None and "" are false
Falsy(x) == x = None \/ x = ""

\* sanitize_user_input(text, 200): markup and quote characters are removed,
\* the rest is stripped
SanitizeUserInput(text) == IF text = "<>" THEN "" ELSE text

\* func.lower(QuizRecord.title).like(f"%{search.lower()}%")
TitleLike(record_title, text) == record_title = "Test" /\ text = "test"

DifficultyCount(record, difficulty) ==
    CASE difficulty = "easy" -> record.easy_count
      [] difficulty = "medium" -> record.medium_count
      [] difficulty = "hard" -> record.hard_count

\* order_by(desc(QuizRecord.generated_at)): the records of `ids`, latest first
RECURSIVE LatestFirst(_, _)
LatestFirst(database, ids) ==
    IF ids = {} THEN <<>>
    ELSE LET q == CHOOSE x \in ids :
                      \A y \in ids : database[y][1].generated_at <= database[x][1].generated_at
         IN  <<database[q][1]>> \o LatestFirst(database, ids \ {q})

\* QuizRepository.list_quizzes(page, limit, search, difficulty)
ListQuizzes(database, page, limit, text, difficulty) ==
    LET ids == {q \in DOMAIN database :
                   /\ database[q] # <<>>
                   /\ Falsy(text) \/ TitleLike(database[q][1].title, text)
                   /\ difficulty \in Difficulties => DifficultyCount(database[q][1], difficulty) > 0}
        records == LatestFirst(database, ids)
        first == (page - 1) * limit + 1
        rows == SubSeq(records, first, Min(Len(records), first + limit - 1))
    IN  [quizzes |-> [k \in DOMAIN rows |-> Serialize(rows[k])], total |-> Cardinality(ids)]

UseCacheAlways(text, difficulty, page) == TRUE

\* main.get_quizzes, line 364
UseCache(text, difficulty, page) == Falsy(text) /\ Falsy(difficulty) /\ page = 1

\* main.get_quizzes(page, limit, search, difficulty) of client c: the response,
\* and in last.steps the operations made in order (`dbf`: the store raises)
GetQuizzes(c, page, limit, search, difficulty, gf, pf, dbf) ==
    LET text == IF Falsy(search) THEN search ELSE SanitizeUserInput(search)
        user_id == GetClientIdentifier(c)
        use_cache == UseCache(text, difficulty, page)
        cached_payload == IF use_cache
                          THEN GetCachedQuizList(redis_client, redis, now, user_id, gf)
                          ELSE <<>>
        listed == ListQuizzes(db, page, limit, text, difficulty)
        put == CacheQuizList(redis_client, redis, now, user_id, listed, ListTtl, pf)
        rejected == ~Falsy(difficulty) /\ difficulty \notin Difficulties
        hit == ~rejected /\ cached_payload # <<>>
        stored == ~rejected /\ ~hit /\ ~dbf /\ use_cache
        steps == IF rejected THEN <<>>
                 ELSE (IF use_cache THEN <<"cache_get">> ELSE <<>>)
                          \o (IF hit THEN <<>> ELSE <<"store">>)
                          \o (IF stored THEN <<"cache_put">> ELSE <<>>)
        payload == IF hit THEN cached_payload[1] ELSE listed
        key == QuizListKey(user_id)
    IN  /\ redis_client = None => (gf = "none" /\ pf = "none")
        /\ gf # "none" => (~rejected /\ use_cache)
        /\ pf # "none" => stored
        /\ dbf => (~rejected /\ ~hit)
        /\ redis' = IF stored THEN put.store ELSE redis
        /\ written' = IF stored /\ put.ok
                      THEN [written EXCEPT ![key] = [has |-> TRUE, at |-> now, ttl |-> ListTtl,
                                                     val |-> [payload |-> listed, db |-> db]]]
                      ELSE written
        /\ last' = [op |-> "list", search |-> search, difficulty |-> difficulty, page |-> page,
                    limit |-> limit, steps |-> steps,
                    code |-> IF rejected THEN 400 ELSE IF dbf THEN 500 ELSE 200,
                    quizzes |-> IF rejected \/ dbf THEN <<>> ELSE payload.quizzes,
                    total |-> IF rejected \/ dbf THEN 0 ELSE payload.total,
                    put_ok |-> stored /\ put.ok]
        /\ UNCHANGED <<db, quizzes_db, served, redis_client, now, params, window, granted, procs>>

\* The quiz a generate request saves under the id: q1 has questions of every
\* difficulty, q2 the heuristic generator's easy ones
ListDraft(quiz_id) ==
    IF quiz_id = "q1" THEN LlmQuestions(MinQuestions)
    ELSE GenerateBasicQuestions(DraftBody, MinQuestions).questions

\* QuizRepository.save_quiz for a fresh id; generated_at is datetime.utcnow(),
\* which no earlier record has
SaveQuiz(quiz_id) ==
    /\ db[quiz_id] = <<>>
    /\ \A q \in QuizIds : db[q] # <<>> => db[q][1].generated_at # now
    /\ db' = [db EXCEPT ![quiz_id] = <<QuizRecord(quiz_id, "Test", ListDraft(quiz_id), Topics, now)>>]
    /\ UNCHANGED <<quizzes_db, served, rvars>>

ListClients == {"c1"}
ListKeys == {QuizListKey(GetClientIdentifier(c)) : c \in ListClients}

InitList ==
    /\ InitGen
    /\ InitTiers
    /\ InitText
    /\ redis_client \in {"connected", None}
    /\ params = [limit |-> PipeLimit, seconds |-> PipeWindow]
    /\ InitStore(ListKeys, Identities)

NextList ==
    \/ /\ \E c \in ListClients, r \in ListRequests, gf \in {"none", "get"},
             pf \in {"none", "setex"}, dbf \in BOOLEAN :
             GetQuizzes(c, r.page, r.limit, r.search, r.difficulty, gf, pf, dbf)
       /\ UNCHANGED <<gvars, xvars>>
    \/ (\E q \in QuizIds : SaveQuiz(q)) /\ UNCHANGED <<gvars, xvars>>
    \/ Advance(ListTtl \div 2, MaxWindows * ListTtl) /\ UNCHANGED <<gvars, qvars, xvars>>

SpecList == InitList /\ [][NextList]_vars

\* ------------------------------------------------------------------------
\* Spec: one generate request (the store is not part of it)
Init ==
    /\ InitGen
    /\ InitTiers
    /\ InitText
    /\ redis_client = "connected"
    /\ params = [limit |-> RateLimit, seconds |-> WindowSeconds]
    /\ InitStore(RateKeys, Identities)

Next == NextGen /\ UNCHANGED <<rvars, qvars, xvars>>

Spec == Init /\ [][Next]_vars

\* ========================================================================
\* Claims about generate_quiz (specification Spec)

ValidInput ==
    /\ title # ""
    /\ content # <<>>
    /\ question_count \in MinQuestions..MaxQuestions

Finished == result.kind # "none"

AllCallsProviderErrors ==
    /\ calls # <<>>
    /\ \A i \in DOMAIN calls : calls[i] = "provider_error"

AllEasy(qs) == \A i \in DOMAIN qs : qs[i].difficulty = "easy"

\* C1: with valid input and a provider whose every call fails with a provider
\* error, generate_quiz raises nothing and returns exactly question_count
\* questions, all easy, made by the heuristic fallback generator.
C1_ProviderErrorsFallBack ==
    (Finished /\ ValidInput /\ AllCallsProviderErrors) =>
        /\ result.kind = "returned"
        /\ result.source \in {"heuristic", "timeout"}
        /\ Len(result.questions) = question_count
        /\ AllEasy(result.questions)

\* C2: once the 25-second alarm has fired, during a provider call or during a
\* backoff sleep, no further provider call is made and generate_quiz returns the
\* heuristic fallback result without raising.
C2_TimeoutAbandonsLoop ==
    timeoutAt # "none" =>
        /\ Len(calls) = callsAtTimeout
        /\ Finished => (result.kind = "returned" /\ result.source = "timeout")

\* C3: provider errors are absorbed: a generate request whose provider calls all
\* failed with a provider error does not end in a 5xx caused by generate_quiz
\* (a 5xx comes only from a structurally invalid heuristic fallback, which the
\* generator never produces).
C3_ProviderErrorsNeverSurface ==
    AllCallsProviderErrors => ~(http = 500 /\ result.kind = "raised")


\* ------------------------------------------------------------------------
\* Claims about the rate limiter (SpecRL: sequential calls, the store failing at will)
CleanIncrement ==
    /\ last.op = "increment"
    /\ window[last.identifier].clean

\* C4: with a reachable store and limit L, of the increment_rate_limit calls made
\* for one identity within one window the first L return True and the (L+1)th
\* and every later one return False.
C4_FirstLAllowedThenRejected ==
    CleanIncrement => (last.allowed <=> window[last.identifier].count <= params.limit)

C4_Witness ==
    /\ CleanIncrement
    /\ ~last.allowed
    /\ window[last.identifier].count = params.limit + 1
    /\ window[last.identifier].start > 0

\* C5: once windowSeconds have passed since the first increment of a window the
\* counter of the identity no longer exists, and the first call of a new window
\* returns True.
C5_CounterGoneAfterWindow ==
    /\ \A i \in RLIdentities :
          (window[i].start >= 0 /\ now >= window[i].start + params.seconds)
              => ~Live(redis, RateKey(i), now)
    /\ (last.op = "increment" /\ last.fault = "none" /\ redis_client # None
            /\ window[last.identifier].count = 1) => last.allowed

StoreUnreachable == redis_client = None \/ last.fault # "none"

\* C8: when the store is unreachable (at construction, or failing during the
\* call) increment_rate_limit returns True for every identity and every call,
\* get_rate_limit_status reports the not-limited record (allowed, current 0,
\* remaining equal to the limit), and neither raises.
C8_FailOpen ==
    /\ (last.op = "increment" /\ StoreUnreachable) => (last.allowed /\ ~last.raised)
    /\ (last.op = "status" /\ StoreUnreachable) =>
          /\ last.status.allowed
          /\ last.status.current = 0
          /\ last.status.remaining = last.status.limit
          /\ ~last.raised

C8_Witness ==
    /\ last.op = "increment"
    /\ last.fault = "incr"
    /\ last.allowed
    /\ Live(redis, RateKey(last.identifier), now)
    /\ redis[RateKey(last.identifier)].val > params.limit

\* ------------------------------------------------------------------------
\* Claims about concurrent calls (SpecConc)

\* C6: under every interleaving of concurrent increment_rate_limit calls for the
\* same identity, at most `limit` of the calls of one window return True.
C6_AtMostLimitGranted ==
    \A t \in 0..MaxNow : granted[ConcIdentity][t] <= params.limit

C6_Witness ==
    \E p, q \in 1..NumProcs :
        /\ procs[p].pc = "compare"
        /\ procs[q].pc = "compare"
        /\ procs[p].start = procs[q].start
        /\ procs[p].current = params.limit
        /\ procs[q].current = params.limit + 1
        /\ granted[ConcIdentity][procs[p].start] = params.limit - 1

\* ------------------------------------------------------------------------
\* Claims about the clients of the generate endpoint (SpecClients)

\* C7: the rate limit of generate requests is per client identity: whether a
\* request of a client is let through depends on that client's own requests of
\* the window only, whatever other clients request.
C7_PerClientCounter ==
    (last.op = "generate" /\ \A i \in Identities : window[i].clean) =>
        (last.allowed <=> window[GetClientIdentifier(last.client)].count <= PipeLimit)

\* ------------------------------------------------------------------------
\* Claims about the cache (SpecCache, SpecCacheOps)
AnsweredGet ==
    /\ last.op = "get"
    /\ last.fault = "none"
    /\ redis_client # None

Expected(w, t) == IF w.has /\ t < w.at + w.ttl THEN <<w.val>> ELSE <<>>

\* C9: after put(k, v, ttl) with no later write or delete of k, get(k) returns v
\* at every time before ttl seconds have elapsed and absent at every time after,
\* whether or not the expired entry was physically deleted; a second put
\* replaces value and expiry.
C9_VisibleUntilExpiry ==
    AnsweredGet => last.res = Expected(written[last.key], last.at)

C9_Witness ==
    /\ AnsweredGet
    /\ last.res = <<>>
    /\ written[last.key].has
    /\ redis[last.key].has
    /\ last.at >= written[last.key].at + written[last.key].ttl

C9_WitnessLastWriter ==
    /\ AnsweredGet
    /\ last.res = <<"v2">>
    /\ written[last.key].at > 0
    /\ last.at > written[last.key].at

CacheOps == {"put", "get", "clear", "stats"}

\* C10: when the store is unreachable (at construction, or failing during the
\* call) every cache operation changes nothing, returns its not-available value
\* (False, None, or a disconnected/error status) and does not raise.
C10_UnavailableIsNoOp ==
    (last.op \in CacheOps /\ StoreUnreachable) =>
        /\ ~last.changed
        /\ ~last.raised
        /\ last.op \in {"put", "clear"} => ~last.ok
        /\ last.op = "get" => last.res = <<>>
        /\ last.op = "stats" =>
              last.stats.status = (IF redis_client = None THEN "disconnected" ELSE "error")

C10_Witness ==
    /\ last.op = "put"
    /\ last.fault = "setex"
    /\ ~last.ok
    /\ \E k \in CacheKeys : Live(redis, k, now)


\* ------------------------------------------------------------------------
\* Claims about quiz retrieval (SpecTiers)
Persisted(q) == db[q] # <<>>

AnsweredGetQuiz ==
    /\ last.op = "get"
    /\ last.code # 500

\* C11: for a persisted quiz every get returns the same payload, whichever tier
\* answers and whatever the state of the cache: the payload the store holds,
\* equal to the first payload any request returned for the id.
C11_SamePayloadFromEveryTier ==
    (AnsweredGetQuiz /\ Persisted(last.id)) =>
        /\ last.res = <<Serialize(db[last.id][1])>>
        /\ last.res = served[last.id]

C11_WitnessStore ==
    /\ AnsweredGetQuiz
    /\ last.reads = <<"cache", "memo", "store">>
    /\ last.res # <<>>
    /\ served[last.id] = last.res
    /\ now > 0

C11_WitnessCache ==
    /\ AnsweredGetQuiz
    /\ last.reads = <<"cache">>
    /\ quizzes_db[last.id] = <<>>

C11_WitnessMemo ==
    /\ AnsweredGetQuiz
    /\ last.reads = <<"cache", "memo">>
    /\ redis_client = None

\* C12: quiz retrieval consults cache, memo and store in this order and stops
\* at the first hit; the store is read only when cache and memo missed; on a
\* store hit the payload is written to the memo and then to the cache; when all
\* three miss the result is absent and nothing is written.
C12_TierOrder ==
    last.op = "get" =>
        /\ last.reads = (IF last.seen.cache THEN <<"cache">>
                         ELSE IF last.seen.memo THEN <<"cache", "memo">>
                         ELSE <<"cache", "memo", "store">>)
        /\ last.writes = (IF ~last.seen.cache /\ ~last.seen.memo /\ last.seen.store /\ last.code = 200
                          THEN <<"memo", "cache">> ELSE <<>>)
        /\ last.writes # <<>> => last.memo_after = last.res
        /\ (~last.seen.cache /\ ~last.seen.memo /\ ~last.seen.store) =>
              (last.res = <<>> /\ last.code \in {404, 500})

C12_Witness ==
    /\ last.op = "get"
    /\ last.writes = <<"memo", "cache">>
    /\ Live(redis, QuizKey(last.id), now)
    /\ quizzes_db[last.id] = last.res

C12_WitnessAllMiss ==
    /\ last.op = "get"
    /\ last.code = 404
    /\ \E q \in QuizIds : Persisted(q)

\* C19: in every persisted quiz, and in every payload generate or get returned
\* for it, difficulty_distribution[d] is the number of the questions of
\* difficulty d, and the three counts sum to the number of questions.
Tally(qs, d) == Cardinality({i \in DOMAIN qs : qs[i].difficulty = d})

DistributionMatches(payload) ==
    /\ \A d \in Difficulties : payload.difficulty_distribution[d] = Tally(payload.quiz, d)
    /\ payload.difficulty_distribution.easy + payload.difficulty_distribution.medium
           + payload.difficulty_distribution.hard = Len(payload.quiz)

C19_DistributionIsTally ==
    /\ \A q \in QuizIds : Persisted(q) => DistributionMatches(Serialize(db[q][1]))
    /\ (last.op \in {"get", "generate"} /\ last.res # <<>>) => DistributionMatches(last.res[1])

C19_Witness ==
    /\ last.op = "get"
    /\ last.res # <<>>
    /\ last.res[1].difficulty_distribution.hard > 0
    /\ last.res[1].difficulty_distribution.easy > 0
    /\ Len(last.res[1].quiz) = MinQuestions - 1


\* ------------------------------------------------------------------------
\* More claims about generate_quiz (Spec)
Called == gpc \notin {"idle", "done"} \/ result.kind # "none"

Normalized == Called /\ gpc # "validate"

\* C13: generate_quiz called with an empty title, an empty body or a question
\* count outside 5..10 fails with the input error before any external call: no
\* provider call, no backoff sleep, no retry.
C13_InvalidInputFailsFast ==
    (Called /\ ~ValidInput) =>
        /\ calls = <<>>
        /\ sleeps = <<>>
        /\ attempt = 0
        /\ Finished => (result.kind = "raised" /\ result.source = "ValueError")

C13_Witness ==
    /\ Finished
    /\ title # ""
    /\ content # <<>>
    /\ question_count = MinQuestions - 1
    /\ result.kind = "raised"

WellFormed(q) ==
    /\ Len(q.options) = 4
    /\ \E i \in DOMAIN q.options : q.options[i] = q.answer
    /\ q.difficulty \in {"easy", "medium", "hard"}

\* C14: every question of every draft generate_quiz returns, on every path
\* (structured parse, manual extraction, heuristic fallback after empty results
\* or after a timeout) has exactly 4 options, an answer among them and a
\* difficulty in easy, medium, hard.
C14_ReturnedQuestionsWellFormed ==
    result.kind = "returned" =>
        \A i \in DOMAIN result.questions : WellFormed(result.questions[i])

C14_Witness ==
    /\ result.kind = "returned"
    /\ result.source = "timeout"
    /\ \E i \in DOMAIN result.questions : result.questions[i].evidence_span # Sentinel
    /\ \E i \in DOMAIN result.questions : result.questions[i].evidence_span = Sentinel

\* C15: after normalization the distribution sums to question_count, for every
\* count in 5..10 and every supplied distribution (absent, empty, partial, sum
\* above or below the count), and normalization never fails.
C15_NormalizedSumsToCount ==
    (Normalized /\ ValidInput) =>
        /\ result.source # "KeyError"
        /\ SumValues(distribution) = question_count

ClaimedDefault(n) ==
    LET easy == Max(2, n \div 3)
        medium == Max(2, n \div 2)
    IN  [easy |-> easy, medium |-> medium, hard |-> Max(1, n - easy - medium)]

\* C16: with no distribution supplied the distribution used for generation is
\* easy = max(2, n div 3), medium = max(2, n div 2), hard = max(1, n - easy - medium).
C16_DefaultDistribution ==
    (Normalized /\ ValidInput /\ supplied = <<>>) =>
        distribution = ClaimedDefault(question_count)

\* C17: for a count in 5..10 a generation that succeeds returns a non-empty list
\* of questions, either question_count of them or another number with a logged
\* count mismatch; a differing count alone never makes generate_quiz raise.
C17_CountMismatchIsOnlyLogged ==
    /\ (result.kind = "returned" /\ ValidInput) =>
          /\ Len(result.questions) > 0
          /\ Len(result.questions) = question_count \/ result.warned
    /\ (Finished /\ ValidInput /\ calls # <<>> /\ calls[Len(calls)] = "structured_short") =>
          /\ result.kind = "returned"
          /\ Len(result.questions) = question_count - 1

C17_Witness ==
    /\ result.kind = "returned"
    /\ result.warned
    /\ Len(result.questions) = question_count - 1
    /\ Len(calls) = MaxRetries

\* ------------------------------------------------------------------------
\* Claims about _extract_json_manually (SpecExtract)
Prose(text) == \A i \in DOMAIN text : text[i] \in {"p", "{", "}"}

ProseAroundOneObject(text) ==
    \E i \in DOMAIN text :
        /\ text[i] = "J"
        /\ Prose(SubSeq(text, 1, i - 1))
        /\ Prose(SubSeq(text, i + 1, Len(text)))

\* C18: for a response made of prose before and after one valid JSON object,
\* _extract_json_manually returns the structure it returns for a response that
\* holds only that object, also when the prose contains brace characters.
C18_ExtractionIgnoresProse ==
    (extracted # NoQuiz /\ ProseAroundOneObject(response)) =>
        extracted = ExtractJsonFromText(<<"J">>, MinQuestions)

\* ------------------------------------------------------------------------
\* Claims about clear_cache (SpecCacheOps)
Cleared ==
    /\ last.op = "clear"
    /\ last.fault = "none"
    /\ redis_client # None

\* C20: clear_cache(pattern) removes every key that matches the pattern,
\* leaves every other key and its expiry as they were, and returns the number
\* of keys it removed (0 when none matched).
C20_ClearReturnsCount ==
    Cleared =>
        /\ RedisKeys(redis, now, last.pattern) = {}
        /\ last.kept
        /\ last.ret = last.removed

\* The part of C20 that the code keeps: the matching keys are gone and the
\* others are untouched
ClearRemovesMatching ==
    Cleared =>
        /\ RedisKeys(redis, now, last.pattern) = {}
        /\ last.kept

\* ------------------------------------------------------------------------
\* More claims about the rate limiter (SpecRL)
CleanStatus ==
    /\ last.op = "status"
    /\ last.fault = "none"
    /\ redis_client # None

\* C21: every increment_rate_limit call on a reachable store, allowed or
\* rejected, raises the counter of its identity by one and is not rolled back:
\* within a window the counter equals the number of calls made in it, and
\* get_rate_limit_status reports that number, also above the limit.
C21_EveryCallCounted ==
    /\ \A i \in RLIdentities :
          (window[i].clean /\ CallsInWindow(window[i], now, params.seconds) > 0) =>
              /\ Live(redis, RateKey(i), now)
              /\ redis[RateKey(i)].val = window[i].count
    /\ (CleanStatus /\ window[last.identifier].clean) => last.status.current = last.k

C21_Witness ==
    /\ CleanStatus
    /\ window[last.identifier].clean
    /\ last.k > params.limit
    /\ last.status.current = last.k

\* C22: get_rate_limit_status reports the limit its caller enforces, current
\* equal to the identity's counter (0 without one) and remaining =
\* max(0, limit - current), never negative.
C22_StatusReportsCallerLimit ==
    (CleanStatus /\ window[last.identifier].clean) =>
        /\ last.status.limit = params.limit
        /\ last.status.current = last.k
        /\ last.status.remaining = Max(0, params.limit - last.status.current)
        /\ last.status.remaining >= 0

\* ------------------------------------------------------------------------
\* Claims about the attempt loop of generate_quiz (Spec)
LastCall == calls[Len(calls)]

\* The provider calls that raised and were not the last attempt, in order
FailedCalls ==
    LET Failed(j) == calls[j] = "provider_error" /\ j < MaxRetries
    IN  SelectSeq([j \in 1..Len(calls) |-> j], Failed)

\* C26: one generate_quiz call invokes the provider at most 3 times whatever the
\* provider answers, and an attempt whose response fails to parse uses up one of
\* the three slots: when the loop is about to call again, as many slots are
\* used as calls were made.
C26_AtMostThreeCalls ==
    /\ Len(calls) <= MaxRetries
    /\ gpc = "attempt" => attempt = Len(calls)

C26_Witness ==
    /\ Len(calls) = MaxRetries
    /\ \A j \in DOMAIN calls : calls[j] = "no_json"
    /\ result.kind = "returned"

\* C27: a backoff sleep happens only after an attempt whose provider call failed
\* and that is not the last; it lasts 2^attempt seconds, attempts counted from
\* 0; an attempt that failed only in parsing is followed by no sleep.
C27_BackoffOnlyAfterProviderFailure ==
    LET done == IF gpc = "sleep" THEN Len(FailedCalls) - 1 ELSE Len(FailedCalls)
    IN  /\ gpc = "sleep" => (LastCall = "provider_error" /\ Len(calls) < MaxRetries)
        /\ sleeps = [k \in 1..done |-> 2 ^ (FailedCalls[k] - 1)]

\* C28: unless the time budget ran out, the heuristic fallback runs only after
\* three attempts: an attempt that yields zero questions is followed by another
\* attempt while fewer than 3 were made.
C28_FallbackAfterThreeAttempts ==
    /\ (result.kind = "returned" /\ result.source = "heuristic") => Len(calls) = MaxRetries
    /\ (gpc = "finish" /\ Len(quiz_data.questions) = 0) => Len(calls) = MaxRetries

\* C29: a provider text that fails to parse is never surfaced: after an attempt
\* whose text the structured parser rejected there is no backoff sleep and no
\* error, and without questions the attempt's data is the empty structure, also
\* when the extracted JSON has an unexpected shape.
C29_ParseFailureNeverSurfaces ==
    (calls # <<>> /\ LastCall \in UnstructuredKinds) =>
        /\ gpc # "sleep"
        /\ result.kind # "raised"
        /\ quiz_data.questions = <<>> => quiz_data = EmptyQuiz

\* ------------------------------------------------------------------------
\* Claims about the generate endpoint (SpecPipe)
Generated == last.op = "generate"
Did(step) == step \in Range(last.steps)

\* C23: the rate-limit check comes first: a generate request the rate limiter
\* rejects makes no article-cache lookup, no fetch and no provider call, and
\* writes nothing to the quiz store, the memo, the article cache or the quiz
\* cache.
C23_RejectedDoesNothing ==
    (Generated /\ ~last.allowed) =>
        /\ last.code # 200
        /\ ~Did("article_lookup") /\ ~Did("fetch") /\ ~Did("cache_article")
        /\ ~Did("generate") /\ ~Did("save") /\ ~Did("memo") /\ ~Did("cache_quiz")
        /\ last.steps[1] = "rate_limit"
        /\ last.wrote = {}

C23_Witness ==
    /\ Generated
    /\ ~last.allowed
    /\ last.code = 429
    /\ last.host = "en.wikipedia.org"
    /\ \E q \in QuizIds : db[q] # <<>>

\* C24: generation is never cached by input: every generate request that
\* passes the rate limit and obtains the article, from the cache or from the
\* fetcher, invokes generate_quiz, and its quiz is stored under a fresh id, also
\* when an earlier request used the same article; a cache hit skips only the
\* fetch.
C24_NeverCachedByInput ==
    (Generated /\ last.allowed /\ (last.hit \/ Did("cache_article"))) =>
        /\ Did("generate")
        /\ last.hit => ~Did("fetch")
        /\ last.code = 200 =>
              /\ last.fresh
              /\ db[last.id] # <<>>
              /\ last.gen = "llm"

C24_Witness ==
    /\ Generated
    /\ last.hit
    /\ last.code = 200
    /\ last.id = "q2"
    /\ db["q1"] # <<>>

\* C25: with the cache reachable, once a generate request has fetched and
\* cached the article of a canonical URL, no later request for a URL with the
\* same canonical form invokes the fetcher while the entry is live (2 hours);
\* a failed fetch writes nothing to the article cache.
C25_NoFetchWhileCached ==
    /\ (Generated /\ last.clean /\ Did("fetch")) => ~last.due
    /\ (Generated /\ Did("fetch") /\ ~Did("cache_article")) => "article_cache" \notin last.wrote

C25_Witness ==
    /\ Generated
    /\ last.clean
    /\ last.due
    /\ last.hit
    /\ last.host = "en.m.wikipedia.org"
    /\ now > 0

C25_WitnessExpired ==
    /\ Generated
    /\ last.clean
    /\ Did("fetch")
    /\ written[WikipediaKey("u1")].has
    /\ written[WikipediaKey("u1")].at = now
    /\ now = ArticleTtl

\* C30: when the parsed provider result has a question that breaks a
\* structural rule, generate_quiz fails as a whole (no draft, no heuristic
\* fallback) and the request writes nothing to the quiz store, the memo or the
\* quiz cache.
C30_InvalidQuestionFailsRequest ==
    (Generated /\ last.invalid /\ Did("generate")) =>
        /\ last.gen = "ValueError"
        /\ last.code = 500
        /\ last.id = ""
        /\ ~Did("save") /\ ~Did("memo") /\ ~Did("cache_quiz")
        /\ last.wrote \cap {"db", "memo", "quiz_cache"} = {}

C30_Witness ==
    /\ Generated
    /\ last.invalid
    /\ Did("generate")
    /\ last.code = 500
    /\ ~last.hit
    /\ "article_cache" \in last.wrote

\* ------------------------------------------------------------------------
\* Claims about the heuristic generator (Spec)
FromHeuristic == result.kind = "returned" /\ result.source \in {"heuristic", "timeout"}

IsPlaceholder(q) ==
    /\ q.options = <<"The main topic", "A secondary topic", "An unrelated topic",
                     "A different subject">>
    /\ q.answer = "The main topic"
    /\ q.section_reference = "General"
    /\ q.evidence_span = Sentinel

FromSentence(q) == q.section_reference = "Paragraph" /\ q.answer = q.evidence_span

\* C31: for every body text and every question count in 5..10 the heuristic
\* generator returns exactly that many questions: those made of sentences
\* first, then the same placeholder question repeated; all of them are easy and
\* carry a fresh id.
C31_HeuristicPadsToCount ==
    (FromHeuristic /\ ValidInput) =>
        LET qs == result.questions
        IN  /\ Len(qs) = question_count
            /\ \E k \in 0..Len(qs) :
                  /\ \A i \in 1..k : FromSentence(qs[i]) /\ ~IsPlaceholder(qs[i])
                  /\ \A i \in (k + 1)..Len(qs) : IsPlaceholder(qs[i])
            /\ \A i \in DOMAIN qs : qs[i].difficulty = "easy" /\ qs[i].id[1] = "uuid"
            /\ \A i, j \in DOMAIN qs : i # j => qs[i].id # qs[j].id

C31_Witness ==
    /\ FromHeuristic
    /\ ValidInput
    /\ FromSentence(result.questions[1])
    /\ IsPlaceholder(result.questions[Len(result.questions)])
    /\ IsPlaceholder(result.questions[Len(result.questions) - 1])

Distinct(seq) == \A i, j \in DOMAIN seq : i # j => seq[i] # seq[j]

\* C32: in every question generate_quiz returns the four options are pairwise
\* distinct; the heuristic generator emits a sentence question only with three
\* distractors that differ from each other and from the answer, also when the
\* body repeats a sentence.
C32_OptionsDistinct ==
    result.kind = "returned" =>
        \A i \in DOMAIN result.questions : Distinct(result.questions[i].options)

\* C33: in every draft generate_quiz returns each question has a non-empty id
\* and the ids are pairwise distinct: a question lacking an id gets a fresh one
\* that differs from every other id of the draft, the provider's included.
C33_IdsDistinct ==
    result.kind = "returned" =>
        /\ \A i \in DOMAIN result.questions : result.questions[i].id # NoId
        /\ \A i, j \in DOMAIN result.questions :
              i # j => result.questions[i].id # result.questions[j].id

\* ------------------------------------------------------------------------
\* Claims about the rate-limit window (SpecRL)

\* C34: the window is fixed: the increment that creates the counter sets its
\* expiry to now + windowSeconds; every later call of the same window, allowed
\* or rejected, increments the counter and leaves the expiry as it is.
C34_WindowIsFixed ==
    [][\A i \in RLIdentities :
          LET k == RateKey(i)
          IN  /\ (Live(redis, k, now) /\ redis'[k].val = redis[k].val + 1) =>
                    redis'[k].exp = redis[k].exp
              /\ (~Live(redis, k, now) /\ redis'[k] # redis[k] /\ redis'[k].has
                      /\ last'.op = "increment" /\ last'.identifier = i /\ last'.fault = "none") =>
                    (redis'[k].val = 1 /\ redis'[k].exp = now + params.seconds)]_vars

C34_Witness ==
    \E i \in RLIdentities :
        /\ last.op = "increment"
        /\ last.identifier = i
        /\ ~last.allowed
        /\ window[i].start < now
        /\ Live(redis, RateKey(i), now)
        /\ redis[RateKey(i)].val > params.limit
        /\ redis[RateKey(i)].exp = window[i].start + params.seconds

\* C36: every rate-limit counter that exists has a window expiry, no later
\* than windowSeconds after the first increment of its window, also when the
\* store fails between the increment and the setting of the expiry; no counter
\* stays for ever.
C36_CounterAlwaysExpires ==
    \A i \in RLIdentities :
        Live(redis, RateKey(i), now) =>
            /\ redis[RateKey(i)].exp # NoExpiry
            /\ redis[RateKey(i)].exp <= window[i].start + params.seconds

\* ------------------------------------------------------------------------
\* Claims about memo, cache and store together (SpecTiers)

\* C38: after any sequence of generate and get requests every quiz id held by
\* the quiz cache or by the in-process memo is in the quiz store with an equal
\* payload: memo and cache are written only after the save succeeded, and a
\* failed save leaves both as they were.
C38_MemoAndCacheWithinStore ==
    \A q \in QuizIds :
        /\ quizzes_db[q] # <<>> =>
              (Persisted(q) /\ quizzes_db[q] = <<Serialize(db[q][1])>>)
        /\ Live(redis, QuizKey(q), now) =>
              (Persisted(q) /\ JsonLoads(redis[QuizKey(q)].val) = Serialize(db[q][1]))

C38_Witness ==
    /\ last.op = "generate"
    /\ last.code = 500
    /\ ~Persisted(last.id)
    /\ \E q \in QuizIds :
          /\ Persisted(q)
          /\ quizzes_db[q] # <<>>
          /\ Live(redis, QuizKey(q), now)

\* ------------------------------------------------------------------------
\* Claims about the quiz-list endpoint (SpecList)

\* A step that is a list request answered with 200
ListAnswered == last'.op = "list" /\ last'.code = 200 /\ now' = now /\ db' = db

ListKey == QuizListKey(GetClientIdentifier("c1"))

\* What the quiz store returns for the request in last'
FromStore(text) == ListQuizzes(db, last'.page, last'.limit, text, last'.difficulty)

\* The request in last' read the store and neither read nor wrote the cache
StoreOnly(text) ==
    /\ last'.steps = <<"store">>
    /\ redis' = redis
    /\ last'.quizzes = FromStore(text).quizzes
    /\ last'.total = FromStore(text).total

\* The request in last' passed the store's result to the cache for 300 seconds
PassedToCache ==
    /\ last'.steps = <<"cache_get", "store", "cache_put">>
    /\ last'.quizzes = FromStore(None).quizzes
    /\ last'.put_ok =>
          redis'[ListKey] = [has |-> TRUE, val |-> JsonDumps(FromStore(None)), exp |-> now + 300]
    /\ ~last'.put_ok => redis' = redis

\* C35: the list cache is used only for the unfiltered first page: a request
\* with a search text, a difficulty filter or a page other than 1 neither reads
\* nor writes the list cache and is answered from the quiz store; an unfiltered
\* first-page request served from the store writes its result to the cache
\* with a TTL of 300 seconds.
C35_CacheOnlyUnfilteredFirstPage ==
    [][ListAnswered =>
          /\ (last'.search # None \/ last'.difficulty # None \/ last'.page # 1) =>
                StoreOnly(IF last'.search = None THEN None ELSE SanitizeUserInput(last'.search))
          /\ (last'.search = None /\ last'.difficulty = None /\ last'.page = 1
                  /\ "store" \in Range(last'.steps)) => PassedToCache]_vars

\* C35 as amended: the same with "a search text" read as a search text that
\* is not empty after sanitization; a search text that sanitization empties
\* is no filter.
C35_CacheOnlyWhenNothingFilters ==
    [][ListAnswered =>
          LET text == IF last'.search = None THEN None ELSE SanitizeUserInput(last'.search)
          IN  /\ (~Falsy(text) \/ last'.difficulty # None \/ last'.page # 1) => StoreOnly(text)
              /\ (Falsy(text) /\ last'.difficulty = None /\ last'.page = 1
                      /\ "store" \in Range(last'.steps)) => PassedToCache]_vars

C35_Witness ==
    /\ last.op = "list"
    /\ last.code = 200
    /\ last.search = "test"
    /\ last.steps = <<"store">>
    /\ Len(last.quizzes) = 2
    /\ Live(redis, ListKey, now)
    /\ Len(JsonLoads(redis[ListKey].val).quizzes) = 1

C35_WitnessWrite ==
    /\ last.op = "list"
    /\ last.steps = <<"cache_get", "store", "cache_put">>
    /\ last.put_ok
    /\ now > 0
    /\ redis[ListKey].exp = now + ListTtl
    /\ Len(last.quizzes) = 1
    /\ last.total = 2

\* C37: the response to an unfiltered first-page list request with limit L
\* holds at most L quizzes and is what the quiz store returned for page 1 and
\* limit L no more than 300 seconds earlier, also when the same client asked
\* for the first page with another limit before.
C37_FirstPageWithinLimit ==
    [][(ListAnswered /\ last'.search = None /\ last'.difficulty = None /\ last'.page = 1) =>
          /\ Len(last'.quizzes) <= last'.limit
          /\ \/ last'.quizzes = FromStore(None).quizzes
             \/ /\ written'[ListKey].has
                /\ last'.quizzes = ListQuizzes(written'[ListKey].val.db, 1, last'.limit, None,
                                                None).quizzes
                /\ now < written'[ListKey].at + 300]_vars
====
